---- MODULE Spec2Model ----
(***************************************************************************)
(* A model of nimbus.io's core services.                                   *)
(*                                                                         *)
(* Part 1: tools/resilient_client.py, the ResilientClient that manages a   *)
(*         DEALER socket to a resilient server (specifications Spec and    *)
(*         LiveSpec).                                                      *)
(* Part 2: data_reader/data_reader_main.py, the handlers of                *)
(*         retrieve-key-start and retrieve-key-next (ReaderSpec).          *)
(* Part 3: handoff_server/forwarder_coroutine.py, the coroutine that       *)
(*         retrieves a handed off segment and archives it again            *)
(*         (ForwarderSpec).                                                *)
(* Part 4: anti_entropy_server/anti_entropy_server_main.py, the auditor's  *)
(*         handlers of audits and consistency check replies                *)
(*         (AuditorSpec).                                                  *)
(* Part 5: the segment table of a node with its two readers: the           *)
(*         consistency check of anti_entropy_server_main.py (CheckSpec)    *)
(*         and web_server/listmatcher.py (ListSpec).                       *)
(* Part 6: unit_tests/test_read_and_write.py, a segment written and read   *)
(*         back (RoundTripSpec).                                           *)
(* Part 7: web_server/data_slicer.py, the DataSlicer iterated until it     *)
(*         stops (SlicerSpec).                                             *)
(***************************************************************************)
EXTENDS Integers, Sequences, FiniteSets, TLC

VARIABLES
    \* ---- ResilientClient fields (resilient_client.py __init__) ----
    status,                       \* self._status
    status_time,                  \* self._status_time
    dealer_socket,                \* self._dealer_socket: NoSocket or XREQ
    send_queue,                   \* self._send_queue (deque)
    pending_message,              \* self._pending_message
    pending_message_start_time,   \* self._pending_message_start_time
    last_successful_ack_time,     \* self._last_successful_ack_time
    \* ---- sources of fresh identifiers (uuid.uuid1().hex) ----
    next_message_id,              \* number of queue_message_for_send calls
    \* ---- the zeromq socket and the server behind it ----
    wire,                         \* messages sent on the socket, not yet at the server
    acks,                         \* acks sent by the server, not yet read by the client
    lingering,                    \* messages of a closed socket still in LINGER
    \* ---- observations of the last step (outputs and inputs) ----
    sent,                         \* message the step wrote to the socket
    send_error,                   \* message whose socket write raised in the step
    ack_in,                       \* message-id the step's _receive_message returned
    \* ---- history ----
    unacked,                      \* ids sent on the current socket, ack not received
    transmitted,                  \* business ids written to a socket so far
    timed_out,                    \* business ids re-queued after an ack timeout
    acked,                        \* business ids whose ack the client accepted
    server_received,              \* business ids the server has received
    received_again,               \* business ids the server has received twice or more
    disconnected_since,           \* when the client really entered disconnected
    first_use,                    \* no socket has been opened since construction
    \* ---- data reader (data_reader_main.py) ----
    sequence_rows,                \* the stored segment's sequence rows, with their data
    active_requests,              \* state["active-requests"]
    reply,                        \* the reply the last handler sent
    conversation,                 \* per state key, the success replies since its
                                  \* last retrieve-key-start that was not a duplicate
    \* ---- handoff forwarder (forwarder_coroutine.py) ----
    coroutine,                    \* the yield at which the coroutine is suspended
    forwarder_completed,          \* local variable completed
    sequence,                     \* local variable sequence
    reader_client,                \* messages queued on reader_client, in order
    writer_client,                \* messages queued on writer_client, in order
    yielded,                      \* the value of the yield the coroutine is suspended at
    received,                     \* the replies sent into the coroutine, in order
    \* ---- anti entropy auditor (anti_entropy_server_main.py) ----
    audit_requests,               \* state["active-requests"]
    retry_list,                   \* state["retry-list"]
    audit_rows,                   \* the audit rows of the central database, by row id
    last_timestamp,               \* the last value of create_timestamp()
    consistency_checks,           \* the requests queued on every anti entropy client
    events,                       \* the events the last step pushed, in order
    audit_replies,                \* the anti-entropy-audit-reply messages the last step sent
    decided,                      \* the request the last step decided, with all its replies
    \* ---- the segment table of a node and its readers ----
    segment,                      \* the rows of nimbusio_node.segment
    check_reply,                  \* the last consistency-check-reply, for the table as it is
    listed,                       \* the last call of the listmatcher and what it returned
    test,                         \* test_simple_segment: its line and its local variables
    \* ---- DataSlicer (data_slicer.py) ----
    slicer                        \* the fields of a DataSlicer, its file and its output

clientFields == <<status, status_time, dealer_socket, send_queue, pending_message,
                  pending_message_start_time, last_successful_ack_time>>
clientVars == <<status, status_time, dealer_socket, send_queue, pending_message,
                pending_message_start_time, last_successful_ack_time,
                next_message_id, wire, acks, lingering,
                sent, send_error, ack_in, unacked, transmitted, timed_out, acked,
                server_received, received_again, disconnected_since, first_use>>

readerVars == <<sequence_rows, active_requests, reply, conversation>>

forwarderVars == <<coroutine, forwarder_completed, sequence, reader_client, writer_client,
                   yielded, received>>

auditorVars == <<audit_requests, retry_list, audit_rows, last_timestamp,
                 consistency_checks, events,
                 audit_replies, decided>>

databaseVars == <<segment, check_reply, listed, test>>

slicerVars == <<slicer>>

vars == <<clientVars, readerVars, forwarderVars, auditorVars, databaseVars, slicerVars>>

\* the variables of the services a specification does not observe
exceptClient == <<readerVars, forwarderVars, auditorVars, databaseVars, slicerVars>>
exceptReader == <<clientVars, forwarderVars, auditorVars, databaseVars, slicerVars>>
exceptForwarder == <<clientVars, readerVars, auditorVars, databaseVars, slicerVars>>
exceptAuditor == <<clientVars, readerVars, forwarderVars, databaseVars, slicerVars>>
exceptDatabase == <<clientVars, readerVars, forwarderVars, auditorVars, slicerVars>>
exceptSlicer == <<clientVars, readerVars, forwarderVars, auditorVars, databaseVars>>

(***************************************************************************)
(* Bounds of the model                                                     *)
(***************************************************************************)
\* number of business messages passed to queue_message_for_send
MaxMessages == 2
\* number of handshake message-ids (uuids) to draw from
NumHandshakeIds == 3

\* number of sequence rows of the stored segment
MaxSequences == 3

\* number of audits started
MaxAudits == 2

\* number of rows of the segment table
MaxRows == 3

\* number of bytes of the uploaded file, and the largest slice size
MaxContent == 4

(***************************************************************************)
(* Program constants (seconds)                                             *)
(***************************************************************************)
AckTimeout == 600
HandshakeRetryInterval == 60
MaxIdleTime == 1800
RetrieveTimeout == 1800

_status_handshaking == "handshake"
_status_connected == "connected"
_status_disconnected == "disconnected"

NoSocket == "None"
XREQ == "XREQ"
NoTime == -1
None == [type |-> "None", id |-> 0]

MessageIds == 1..MaxMessages
HandshakeIds == (MaxMessages + 1)..(MaxMessages + NumHandshakeIds)

BusinessMessage(id) == [type |-> "business", id |-> id]
HandshakeMessage(id) == [type |-> "resilient-server-handshake", id |-> id]
IsBusiness(m) == m.type = "business"
IsHandshake(m) == m.type = "resilient-server-handshake"

Max(a, b) == IF a >= b THEN a ELSE b

(***************************************************************************)
(* time.time().  The client only ever uses differences between the clock   *)
(* and a stored time stamp, and compares them with the three constants     *)
(* above, so the clock is kept at a fixed reading and the passage of d     *)
(* seconds moves every stored time stamp d seconds into the past, a stamp  *)
(* older than MaxIdleTime being kept at 0 (__init__ stores 0.0 when the    *)
(* real clock reads seconds since the epoch).                              *)
(***************************************************************************)
Now == MaxIdleTime
\* the clock advances in steps that cross the client's intervals; a step of
\* AckTimeout also crosses the shorter HandshakeRetryInterval
TickSteps == {AckTimeout, MaxIdleTime}
\* time stamp t after d more seconds, for a stamp that is only ever compared
\* with the interval horizon: a stamp older than the horizon stays as old
Age(t, d, horizon) ==
    IF t = NoTime \/ t <= Now - horizon THEN t ELSE Max(Now - horizon, t - d)

(***************************************************************************)
(* ResilientClient.__init__                                                *)
(***************************************************************************)
ClientInit ==
    /\ status = _status_disconnected
    /\ status_time = 0
    /\ dealer_socket = NoSocket
    /\ send_queue = <<>>
    /\ pending_message = None
    /\ pending_message_start_time = NoTime
    /\ last_successful_ack_time = 0
    /\ next_message_id = 1
    /\ wire = <<>>
    /\ acks = <<>>
    /\ lingering = <<>>
    /\ sent = None
    /\ send_error = None
    /\ ack_in = 0
    /\ unacked = {}
    /\ transmitted = {}
    /\ timed_out = {}
    /\ acked = {}
    /\ server_received = {}
    /\ received_again = {}
    /\ disconnected_since = Now
    /\ first_use = TRUE

\* the step wrote nothing to the socket and read nothing from it
Quiet == sent' = None /\ send_error' = None /\ ack_in' = 0

(***************************************************************************)
(* _send_message(message).  ok = FALSE is a socket write that raises: the  *)
(* exception leaves the handler, whose earlier assignments stand.          *)
(* base is the set of unacked ids before the write.                        *)
(***************************************************************************)
SendMessage(message, ok, base) ==
    /\ sent' = IF ok THEN message ELSE None
    /\ send_error' = IF ok THEN None ELSE message
    /\ wire' = IF ok THEN Append(wire, message) ELSE wire
    /\ unacked' = IF ok THEN base \cup {message.id} ELSE base
    /\ transmitted' = IF ok /\ IsBusiness(message)
                      THEN transmitted \cup {message.id} ELSE transmitted

\* a _disconnect that sets the status and keeps the socket
DisconnectKeepsSocket ==
    /\ dealer_socket' = dealer_socket
    /\ status' = _status_disconnected
    /\ status_time' = Now
    /\ wire' = <<>>
    /\ acks' = <<>>
    /\ lingering' = wire
    /\ unacked' = {}
    /\ disconnected_since' = Now

(***************************************************************************)
(* _disconnect: unregister and close the socket.  What the closed socket   *)
(* had not delivered stays in LINGER; acks for it can no longer be read.   *)
(***************************************************************************)
Disconnect ==
    /\ dealer_socket' = NoSocket
    /\ status' = _status_disconnected
    /\ status_time' = Now
    /\ wire' = <<>>
    /\ acks' = <<>>
    /\ lingering' = wire
    /\ unacked' = {}
    /\ disconnected_since' = Now

\* message-ids that some message or ack still carries
IdsInUse ==
    {pending_message.id}
        \cup {wire[i].id : i \in DOMAIN wire}
        \cup {lingering[i].id : i \in DOMAIN lingering}
        \cup {acks[i] : i \in DOMAIN acks}
\* uuid.uuid1().hex for a handshake: an id that nothing carries
FreshHandshakeId ==
    CHOOSE id \in HandshakeIds \ IdsInUse :
        \A other \in HandshakeIds \ IdsInUse : id <= other

\* _handle_status_disconnected: the retry interval has passed
RetryAtOnce == TRUE
HandshakeRetryDue == Now - status_time >= HandshakeRetryInterval

_handle_status_disconnected(ok) ==
    /\ status = _status_disconnected
    /\ IF ~HandshakeRetryDue
       THEN /\ Quiet
            /\ UNCHANGED <<clientFields, wire, acks, lingering,
                           unacked, transmitted, disconnected_since, first_use>>
       ELSE /\ dealer_socket = NoSocket        \* assert self._dealer_socket is None
            /\ dealer_socket' = XREQ
            /\ pending_message' = HandshakeMessage(FreshHandshakeId)
            /\ pending_message_start_time' = Now
            /\ status' = _status_handshaking
            /\ status_time' = Now
            /\ SendMessage(HandshakeMessage(FreshHandshakeId), ok, unacked)
            /\ ack_in' = 0
            /\ first_use' = FALSE
            /\ UNCHANGED <<send_queue, last_successful_ack_time, acks, lingering,
                           disconnected_since>>
    /\ UNCHANGED <<next_message_id, timed_out, acked, server_received, received_again>>

\* _handle_status_connected: the client has been idle for max_idle_time
IdleTooLong == Now - last_successful_ack_time >= MaxIdleTime
\* _handle_status_connected, _handle_status_handshaking: no ack in ack_timeout
AckTimedOut == Now - pending_message_start_time >= AckTimeout

\* the send queue after an unacked message is put back
RequeueAtTail(queue, message) == Append(queue, message)
RequeueDropped(queue, message) == queue
Requeue(queue, message) == <<message>> \o queue

_handle_status_connected ==
    /\ status = _status_connected
    /\ Quiet
    /\ IF pending_message = None
       THEN /\ IF IdleTooLong
               THEN /\ Disconnect
               ELSE /\ UNCHANGED <<dealer_socket, status, status_time, wire, acks,
                                   lingering, unacked, disconnected_since>>
            /\ UNCHANGED <<send_queue, pending_message, pending_message_start_time,
                           timed_out>>
       ELSE IF ~AckTimedOut
       THEN UNCHANGED <<clientFields, wire, acks, lingering, unacked,
                        disconnected_since, timed_out>>
       ELSE /\ dealer_socket = XREQ            \* assert in _disconnect
            /\ Disconnect
            /\ send_queue' = Requeue(send_queue, pending_message)
            /\ pending_message' = None
            /\ pending_message_start_time' = NoTime
            /\ timed_out' = IF IsBusiness(pending_message)
                            THEN timed_out \cup {pending_message.id} ELSE timed_out
    /\ UNCHANGED <<last_successful_ack_time, next_message_id,
                   transmitted, acked, server_received, received_again, first_use>>

_handle_status_handshaking ==
    /\ status = _status_handshaking
    /\ pending_message # None                  \* assert
    /\ Quiet
    /\ IF ~AckTimedOut
       THEN UNCHANGED <<clientFields, wire, acks, lingering, unacked,
                        disconnected_since>>
       ELSE /\ dealer_socket = XREQ            \* assert in _disconnect
            /\ Disconnect
            /\ pending_message' = None
            /\ pending_message_start_time' = NoTime
            /\ UNCHANGED send_queue
    /\ UNCHANGED <<last_successful_ack_time, next_message_id,
                   transmitted, timed_out, acked, server_received, received_again, first_use>>

\* run: the time-queue task, dispatching on the status
run(ok) ==
    \/ _handle_status_disconnected(ok)
    \/ _handle_status_connected
    \/ _handle_status_handshaking

Run == \E ok \in BOOLEAN : run(ok)

\* close
Close ==
    /\ dealer_socket # NoSocket
    /\ Disconnect
    /\ Quiet
    /\ UNCHANGED <<send_queue, pending_message, pending_message_start_time,
                   last_successful_ack_time, next_message_id,
                   transmitted, timed_out, acked, server_received, received_again, first_use>>

\* queue_message_for_send: the message can be sent at once
SendsWhenConnected == status = _status_connected
CanSendNow == status = _status_connected /\ pending_message = None

queue_message_for_send(ok) ==
    /\ next_message_id <= MaxMessages
    /\ next_message_id' = next_message_id + 1
    /\ ack_in' = 0
    /\ IF CanSendNow
       THEN /\ pending_message' = BusinessMessage(next_message_id)
            /\ pending_message_start_time' = Now
            /\ SendMessage(BusinessMessage(next_message_id), ok, unacked)
            /\ UNCHANGED send_queue
       ELSE /\ send_queue' = Append(send_queue, BusinessMessage(next_message_id))
            /\ sent' = None
            /\ send_error' = None
            /\ UNCHANGED <<pending_message, pending_message_start_time, wire,
                           unacked, transmitted>>
    /\ UNCHANGED <<status, status_time, dealer_socket, last_successful_ack_time,
                   acks, lingering, timed_out, acked, server_received, received_again,
                   disconnected_since, first_use>>

\* _pollster_callback: the send queue after popleft
NoPop(queue) == queue
PopLeft(queue) == Tail(queue)

\* _pollster_callback: a callback that never finds a message to send
AlwaysIndexError(queue) == TRUE
\* _pollster_callback: self._send_queue.popleft() raises IndexError
IndexError(queue) == queue = <<>>

\* _pollster_callback: the message read is the ack of the pending message
AcksAnything(message_id) == pending_message # None
AckMatches(message_id) ==
    pending_message # None /\ message_id = pending_message.id

(***************************************************************************)
(* _pollster_callback with _receive_message returning an ack that carries  *)
(* message_id (a receive that would block returns None and changes         *)
(* nothing).  The caller says what becomes of acks.                        *)
(***************************************************************************)
_pollster_callback(message_id, ok) ==
    /\ dealer_socket = XREQ                    \* registered with the pollster
    /\ ack_in' = message_id
    /\ IF ~AckMatches(message_id)
       THEN /\ sent' = None
            /\ send_error' = None
            /\ UNCHANGED <<clientFields, wire, unacked, transmitted, acked>>
       ELSE /\ last_successful_ack_time' = Now
            /\ IF IsHandshake(pending_message)
               THEN /\ status = _status_handshaking     \* assert
                    /\ status' = _status_connected
                    /\ status_time' = Now
               ELSE UNCHANGED <<status, status_time>>
            /\ acked' = IF IsBusiness(pending_message)
                        THEN acked \cup {pending_message.id} ELSE acked
            /\ IF IndexError(send_queue)
               THEN /\ pending_message' = None
                    /\ pending_message_start_time' = NoTime
                    /\ sent' = None
                    /\ send_error' = None
                    /\ unacked' = unacked \ {pending_message.id}
                    /\ UNCHANGED <<send_queue, wire, transmitted>>
               ELSE /\ send_queue' = PopLeft(send_queue)
                    /\ pending_message' = Head(send_queue)
                    /\ pending_message_start_time' = Now
                    /\ SendMessage(Head(send_queue), ok,
                                   unacked \ {pending_message.id})
            /\ UNCHANGED dealer_socket
    /\ UNCHANGED <<next_message_id, lingering, timed_out,
                   server_received, received_again, disconnected_since, first_use>>

\* the pollster finds the server's next ack readable on the socket
ReceiveAckWith(ok) ==
    /\ acks # <<>>
    /\ acks' = Tail(acks)
    /\ _pollster_callback(Head(acks), ok)

ReceiveAck == \E ok \in BOOLEAN : ReceiveAckWith(ok)

\* the socket delivers a message that is not the ack the client waits for
ReceiveUnexpected ==
    \E message_id \in MessageIds \cup HandshakeIds :
        /\ ~(pending_message # None /\ message_id = pending_message.id)
        /\ UNCHANGED acks
        /\ _pollster_callback(message_id, TRUE)

\* the server's record of the business messages it has received
Received(message) ==
    /\ server_received' = IF IsBusiness(message)
                          THEN server_received \cup {message.id}
                          ELSE server_received
    /\ received_again' = IF IsBusiness(message) /\ message.id \in server_received
                         THEN received_again \cup {message.id}
                         ELSE received_again

(***************************************************************************)
(* The resilient server: on receipt of a message it emits at once an ack   *)
(* that carries the message's message-id.                                  *)
(***************************************************************************)
ServerReceive ==
    /\ wire # <<>>
    /\ wire' = Tail(wire)
    /\ acks' = Append(acks, Head(wire).id)
    /\ Received(Head(wire))
    /\ Quiet
    /\ UNCHANGED <<clientFields, next_message_id, lingering,
                   unacked, transmitted, timed_out, acked, disconnected_since,
                   first_use>>

\* a message of a closed socket reaches the server; its ack reaches nobody
ServerReceiveLingering ==
    /\ lingering # <<>>
    /\ lingering' = Tail(lingering)
    /\ Received(Head(lingering))
    /\ Quiet
    /\ UNCHANGED <<clientFields, next_message_id, wire, acks,
                   unacked, transmitted, timed_out, acked, disconnected_since,
                   first_use>>

\* d seconds pass
Tick ==
    \E d \in TickSteps :
        /\ status_time' = Age(status_time, d, HandshakeRetryInterval)
        /\ pending_message_start_time' =
               Age(pending_message_start_time, d, AckTimeout)
        /\ last_successful_ack_time' =
               Age(last_successful_ack_time, d, MaxIdleTime)
        /\ disconnected_since' = Age(disconnected_since, d, HandshakeRetryInterval)
        /\ Quiet
        /\ UNCHANGED <<status, dealer_socket, send_queue, pending_message,
                       next_message_id, wire, acks, lingering,
                       unacked, transmitted, timed_out, acked, server_received, received_again,
                       first_use>>


(***************************************************************************)
(* Part 2: the data reader                                                 *)
(***************************************************************************)
ClientTags == {"client-1", "client-2"}
SegmentUnifiedId == 1
SegmentConjoinedPart == 0
SegmentNum == 1

\* a reader that keeps one iterator per segment, whoever asks
KeyWithoutClientTag(message) ==
    <<"client-1", message.segment_unified_id, message.segment_num>>

\* _compute_state_key(message)
_compute_state_key(message) ==
    <<message.client_tag, message.segment_unified_id, message.segment_num>>

\* the retrieve messages clients send for the stored segment
RetrieveMessage(message_type, client_tag) ==
    [ message_type           |-> message_type,
      client_tag             |-> client_tag,
      segment_unified_id     |-> SegmentUnifiedId,
      segment_conjoined_part |-> SegmentConjoinedPart,
      segment_num            |-> SegmentNum ]

StateKeys ==
    {_compute_state_key(RetrieveMessage("retrieve-key-start", tag)) : tag \in ClientTags}

\* data contents and their digests: hashlib.md5(data).digest(), b64encode
DataContents == {"a", "b"}
MD5(data) == <<"md5", data>>
b64encode(digest) == <<"b64", digest>>

(***************************************************************************)
(* A sequence row with its bytes in the value file: the stored hash is the *)
(* MD5 of the bytes, or (bit rot) of other bytes, or the read raises.      *)
(***************************************************************************)
SequenceRows ==
    [data : DataContents, hash : {MD5(d) : d \in DataContents}, readable : {TRUE}]
        \cup {[data |-> "a", hash |-> MD5("a"), readable |-> FALSE]}

RECURSIVE SeqsUpTo(_, _)
SeqsUpTo(S, n) ==
    IF n = 0 THEN {<<>>}
    ELSE LET shorter == SeqsUpTo(S, n - 1)
         IN  shorter \cup {Append(q, x) : q \in {r \in shorter : Len(r) = n - 1}, x \in S}

NoReply ==
    [ state_key          |-> <<>>,
      message_type       |-> "None",
      result             |-> "None",
      sequence_num       |-> 0,
      completed          |-> "None",
      segment_md5_digest |-> <<>>,
      data               |-> "None" ]

ReaderInit ==
    /\ sequence_rows \in SeqsUpTo(SequenceRows, MaxSequences)
    /\ active_requests = <<>>
    /\ reply = NoReply
    /\ conversation = [k \in StateKeys |-> <<>>]

\* a reply that reports a failure
ErrorReply(message, result) ==
    [ state_key          |-> _compute_state_key(message),
      message_type       |-> message.message_type,
      result             |-> result,
      sequence_num       |-> 0,
      completed          |-> "None",
      segment_md5_digest |-> <<>>,
      data               |-> "None" ]

\* a reply that delivers a sequence
SuccessReply(message, sequence_read_count, completed, sequence_row) ==
    [ state_key          |-> _compute_state_key(message),
      message_type       |-> message.message_type,
      result             |-> "success",
      sequence_num       |-> sequence_read_count,
      completed          |-> IF completed THEN "True" ELSE "False",
      segment_md5_digest |-> b64encode(sequence_row.hash),
      data               |-> sequence_row.data ]

\* state["active-requests"][state_key] = state_entry
Store(requests, state_key, state_entry) ==
    [k \in DOMAIN requests \cup {state_key} |->
        IF k = state_key THEN state_entry ELSE requests[k]]
\* a pop that leaves the entry where it is
NeverPopped(requests, state_key) == requests
\* state["active-requests"].pop(state_key), the dictionary left
Pop(requests, state_key) ==
    [k \in DOMAIN requests \ {state_key} |-> requests[k]]

\* the handlers' test that the sequence just read is the last one
NeverCompleted(sequence_read_count, sequence_row_count) == FALSE
Completed(sequence_read_count, sequence_row_count) ==
    sequence_read_count = sequence_row_count

\* the dictionary after the handlers' "if completed ... else store"
StoreAlways(requests, state_key, state_entry, completed) ==
    Store(requests, state_key, state_entry)
StoreUnlessCompleted(requests, state_key, state_entry, completed) ==
    IF completed THEN requests ELSE Store(requests, state_key, state_entry)

(***************************************************************************)
(* Reader.generate_all_sequence_rows: a generator that yields the row      *)
(* count, then the sequence rows in sequence order, each with its data; a  *)
(* read that fails raises.  position counts the rows asked for.            *)
(***************************************************************************)
GeneratorRowCount == Len(sequence_rows)
GeneratorRaises(position) ==
    position > Len(sequence_rows) \/ ~sequence_rows[position].readable
GeneratorNext(position) == sequence_rows[position]

\* the segment md5 does not match the row's hash
NeverMismatch(sequence_row) == FALSE
Md5Mismatch(sequence_row) == MD5(sequence_row.data) # sequence_row.hash

\* "if state_key in state["active-requests"]": a start for a key in use
NeverDuplicate(requests, state_key) == FALSE
IsDuplicate(requests, state_key) == state_key \in DOMAIN requests

Begin(state_key, replies) ==
    conversation' = [conversation EXCEPT ![state_key] = replies]
Continue(state_key, success) ==
    conversation' = [conversation EXCEPT ![state_key] = Append(@, success)]

(***************************************************************************)
(* _handle_retrieve_key_start.  The generator of                           *)
(* generate_all_sequence_rows yields the row count, then the rows with     *)
(* their data; a state entry keeps it as the number of rows it has yielded.*)
(***************************************************************************)
_handle_retrieve_key_start(message) ==
    LET state_key == _compute_state_key(message)
        sequence_row_count == GeneratorRowCount
        state_entry == [ generator           |-> 1,
                         sequence_row_count  |-> sequence_row_count,
                         sequence_read_count |-> 1,
                         timeout             |-> Now + RetrieveTimeout ]
        completed == Completed(state_entry.sequence_read_count,
                               state_entry.sequence_row_count)
    IN
    /\ message.message_type = "retrieve-key-start"
    /\ UNCHANGED sequence_rows
    /\ IF IsDuplicate(active_requests, state_key)
       THEN /\ reply' = ErrorReply(message, "invalid-duplicate")
            /\ UNCHANGED <<active_requests, conversation>>
       ELSE IF sequence_row_count = 0
       THEN /\ reply' = ErrorReply(message, "no-sequence-rows")
            /\ Begin(state_key, <<>>)
            /\ UNCHANGED active_requests
       ELSE IF GeneratorRaises(1)
       THEN /\ reply' = ErrorReply(message, "exception")
            /\ Begin(state_key, <<>>)
            /\ UNCHANGED active_requests
       ELSE IF Md5Mismatch(GeneratorNext(1))
       THEN /\ reply' = ErrorReply(message, "md5-mismatch")
            /\ Begin(state_key, <<>>)
            /\ UNCHANGED active_requests
       ELSE /\ active_requests' =
                  StoreUnlessCompleted(active_requests, state_key, state_entry,
                                       completed)
            /\ reply' = SuccessReply(message, state_entry.sequence_read_count,
                                     completed, GeneratorNext(1))
            /\ Begin(state_key, <<reply'>>)

\* _handle_retrieve_key_next
_handle_retrieve_key_next(message) ==
    LET state_key == _compute_state_key(message)
    IN
    /\ message.message_type = "retrieve-key-next"
    /\ UNCHANGED sequence_rows
    /\ IF state_key \notin DOMAIN active_requests
       THEN /\ reply' = ErrorReply(message, "unknown-request")
            /\ UNCHANGED <<active_requests, conversation>>
       ELSE LET state_entry == active_requests[state_key]
                position == state_entry.generator + 1
                sequence_read_count == state_entry.sequence_read_count + 1
                completed == Completed(sequence_read_count,
                                       state_entry.sequence_row_count)
            IN
            IF GeneratorRaises(position)
            THEN /\ reply' = ErrorReply(message, "exception")
                 /\ active_requests' = Pop(active_requests, state_key)
                 /\ UNCHANGED conversation
            ELSE IF Md5Mismatch(GeneratorNext(position))
            THEN /\ reply' = ErrorReply(message, "md5-mismatch")
                 /\ active_requests' = Pop(active_requests, state_key)
                 /\ UNCHANGED conversation
            ELSE /\ active_requests' =
                       StoreUnlessCompleted(
                           Pop(active_requests, state_key), state_key,
                           [state_entry EXCEPT
                               !.generator = position,
                               !.sequence_read_count = sequence_read_count],
                           completed)
                 /\ reply' = SuccessReply(message, sequence_read_count, completed,
                                          GeneratorNext(position))
                 /\ Continue(state_key, reply')

RetrieveKeyStart ==
    \E tag \in ClientTags :
        _handle_retrieve_key_start(RetrieveMessage("retrieve-key-start", tag))

RetrieveKeyNext ==
    \E tag \in ClientTags :
        _handle_retrieve_key_next(RetrieveMessage("retrieve-key-next", tag))

\* retrieve_timeout seconds pass: every deadline comes due
ReaderTick ==
    /\ active_requests' =
          [k \in DOMAIN active_requests |->
              [active_requests[k] EXCEPT !.timeout = Max(Now, @ - RetrieveTimeout)]]
    /\ reply' = NoReply
    /\ UNCHANGED <<sequence_rows, conversation>>

\* the state cleaner reaps the iterators whose deadline has passed
StateCleaner ==
    /\ \E k \in DOMAIN active_requests : active_requests[k].timeout <= Now
    /\ active_requests' =
          [k \in {x \in DOMAIN active_requests : active_requests[x].timeout > Now}
              |-> active_requests[k]]
    /\ reply' = NoReply
    /\ UNCHANGED <<sequence_rows, conversation>>

(***************************************************************************)
(* Part 3: the handoff forwarder                                           *)
(***************************************************************************)
\* the segment that was handed off, and the arguments of the coroutine
segment_row ==
    [ collection_id  |-> "collection",
      key            |-> "key",
      unified_id     |-> SegmentUnifiedId,
      conjoined_part |-> SegmentConjoinedPart,
      timestamp      |-> "timestamp",
      segment_num    |-> SegmentNum,
      file_size      |-> "file-size",
      file_adler32   |-> "file-adler32",
      file_hash      |-> "file-hash",
      source_node_id |-> "source-node-id" ]
source_node_names == <<"node-b">>
node_name_dict == [id \in {"source-node-id"} |-> "node-a"]
archive_priority == "priority"

\* the yields of the coroutine, as line numbers of forwarder_coroutine.py
NotStarted == 0
AtRetrieveStartReply == 43
AtFirstArchiveReply == 94
AtYieldEntire == 98
AtRetrieveNextReply == 116
AtArchiveReply == 167
AtYieldFinal == 171
Raised == -1
Returned == -2

\* a yield without a value
NothingYielded == <<>>

ForwarderInit ==
    /\ coroutine = NotStarted
    /\ forwarder_completed = FALSE
    /\ sequence = 0
    /\ reader_client = <<>>
    /\ writer_client = <<>>
    /\ yielded = NothingYielded
    /\ received = <<>>

\* uuid.uuid1().hex: a fresh message id
message_id == Len(reader_client) + Len(writer_client) + 1

\* the retrieve messages of the coroutine
RetrieveRequest(message_type) ==
    [ message_type       |-> message_type,
      message_id         |-> message_id,
      segment_unified_id |-> segment_row.unified_id,
      segment_num        |-> segment_row.segment_num ]

\* the fields every archive message has
ArchiveFields(message_type, retrieve_reply) ==
    [ message_type       |-> message_type,
      message_id         |-> message_id,
      priority           |-> archive_priority,
      collection_id      |-> segment_row.collection_id,
      key                |-> segment_row.key,
      unified_id         |-> segment_row.unified_id,
      conjoined_part     |-> segment_row.conjoined_part,
      timestamp_repr     |-> <<"repr", segment_row.timestamp>>,
      segment_num        |-> segment_row.segment_num,
      segment_size       |-> retrieve_reply.segment_size,
      zfec_padding_size  |-> retrieve_reply.zfec_padding_size,
      segment_adler32    |-> retrieve_reply.segment_adler32,
      segment_md5_digest |-> retrieve_reply.segment_md5_digest,
      source_node_name   |-> node_name_dict[segment_row.source_node_id],
      handoff_node_name  |-> "None" ]
\* a coroutine that numbers every sequence 1
SequenceOne(n) == [sequence_num |-> 1]
\* "sequence-num" : sequence
SequenceNum(n) == [sequence_num |-> n]
FileFields ==
    [ file_size    |-> segment_row.file_size,
      file_adler32 |-> segment_row.file_adler32,
      file_hash    |-> b64encode(segment_row.file_hash) ]

\* the archive message for the first retrieve reply: "if completed: ... else:"
AlwaysStart(retrieve_reply, n) ==
    ArchiveFields("archive-key-start", retrieve_reply) @@ SequenceNum(n)
FirstArchiveMessage(retrieve_reply, n) ==
    IF retrieve_reply.completed
    THEN ArchiveFields("archive-key-entire", retrieve_reply) @@ FileFields
    ELSE ArchiveFields("archive-key-start", retrieve_reply) @@ SequenceNum(n)

\* the archive message for a later retrieve reply
NextArchiveMessage(retrieve_reply, n) ==
    IF retrieve_reply.completed
    THEN ArchiveFields("archive-key-final", retrieve_reply) @@ SequenceNum(n) @@ FileFields
    ELSE ArchiveFields("archive-key-next", retrieve_reply) @@ SequenceNum(n)

\* client.queue_message_for_send(message, data=data)
Queued(client, message, data) == Append(client, [control |-> message, data |-> data])

\* an assert of the coroutine fails: AssertionError ends it
Raise ==
    /\ coroutine' = Raised
    /\ UNCHANGED <<forwarder_completed, sequence, reader_client, writer_client, yielded>>

\* "yield (segment_row, source_node_names, )"
YieldSegment(position) ==
    /\ coroutine' = position
    /\ yielded' = <<segment_row, source_node_names>>
    /\ UNCHANGED <<forwarder_completed, sequence, reader_client, writer_client>>

\* a coroutine that does not wait for a reply between two requests
RetrieveTwo ==
    /\ sequence' = sequence + 1
    /\ reader_client' = Queued(Queued(reader_client, RetrieveRequest("retrieve-key-next"), "None"),
                               RetrieveRequest("retrieve-key-next"), "None")
    /\ coroutine' = AtRetrieveNextReply
    /\ UNCHANGED <<forwarder_completed, writer_client, yielded>>

\* sequence += 1, retrieve-key-next is queued, the coroutine waits for the reply
RetrieveNext ==
    /\ sequence' = sequence + 1
    /\ reader_client' = Queued(reader_client, RetrieveRequest("retrieve-key-next"), "None")
    /\ coroutine' = AtRetrieveNextReply
    /\ UNCHANGED <<forwarder_completed, writer_client, yielded>>

\* the driver starts the coroutine: it runs to its first yield
Start ==
    /\ coroutine = NotStarted
    /\ reader_client' = Queued(reader_client, RetrieveRequest("retrieve-key-start"), "None")
    /\ coroutine' = AtRetrieveStartReply
    /\ UNCHANGED <<forwarder_completed, sequence, writer_client, yielded, received>>

\* the reply to retrieve-key-start is sent into the coroutine
SendRetrieveStartReply(retrieve_reply) ==
    /\ coroutine = AtRetrieveStartReply
    /\ received' = Append(received, retrieve_reply)
    /\ IF \/ retrieve_reply.message_type # "retrieve-key-reply"
          \/ retrieve_reply.result # "success"
       THEN Raise
       ELSE /\ forwarder_completed' = retrieve_reply.completed
            /\ sequence' = 1
            /\ writer_client' = Queued(writer_client, FirstArchiveMessage(retrieve_reply, 1),
                                       retrieve_reply.data)
            /\ coroutine' = AtFirstArchiveReply
            /\ UNCHANGED <<reader_client, yielded>>

\* the reply to archive-key-entire or archive-key-start is sent into the coroutine
SendFirstArchiveReply(archive_reply) ==
    /\ coroutine = AtFirstArchiveReply
    /\ received' = Append(received, archive_reply)
    /\ IF forwarder_completed
       THEN YieldSegment(AtYieldEntire)
       ELSE IF \/ archive_reply.message_type # "archive-key-start-reply"
               \/ archive_reply.result # "success"
       THEN Raise
       ELSE RetrieveNext

\* the reply to retrieve-key-next is sent into the coroutine
SendRetrieveNextReply(retrieve_reply) ==
    /\ coroutine = AtRetrieveNextReply
    /\ received' = Append(received, retrieve_reply)
    /\ IF \/ retrieve_reply.message_type # "retrieve-key-reply"
          \/ retrieve_reply.result # "success"
       THEN Raise
       ELSE /\ forwarder_completed' = retrieve_reply.completed
            /\ writer_client' = Queued(writer_client, NextArchiveMessage(retrieve_reply, sequence),
                                       retrieve_reply.data)
            /\ coroutine' = AtArchiveReply
            /\ UNCHANGED <<sequence, reader_client, yielded>>

\* the reply to archive-key-next or archive-key-final is sent into the coroutine
SendArchiveReply(archive_reply) ==
    /\ coroutine = AtArchiveReply
    /\ received' = Append(received, archive_reply)
    /\ IF archive_reply.result # "success"
       THEN Raise
       ELSE IF forwarder_completed
       THEN YieldSegment(AtYieldFinal)
       ELSE RetrieveNext

\* the coroutine is resumed after its last yield: it returns
Return ==
    /\ coroutine \in {AtYieldEntire, AtYieldFinal}
    /\ coroutine' = Returned
    /\ yielded' = NothingYielded
    /\ UNCHANGED <<forwarder_completed, sequence, reader_client, writer_client, received>>

(***************************************************************************)
(* The counterparts.  The reader answers the n-th retrieve with the n-th   *)
(* sequence of the segment, as the reply of data_reader_main.py; the       *)
(* writer answers an archive message with success or with an error.        *)
(***************************************************************************)
RetrieveKeyReply(n) ==
    LET failure(result) ==
            [ message_type |-> "retrieve-key-reply", result |-> result,
              completed |-> "None", sequence_num |-> "None", data |-> "None" ]
    IN  IF GeneratorRowCount = 0 THEN failure("no-sequence-rows")
        ELSE IF GeneratorRaises(n) THEN failure("exception")
        ELSE IF Md5Mismatch(GeneratorNext(n)) THEN failure("md5-mismatch")
        ELSE [ message_type       |-> "retrieve-key-reply",
               result             |-> "success",
               completed          |-> Completed(n, GeneratorRowCount),
               sequence_num       |-> n,
               segment_size       |-> <<"size", GeneratorNext(n).data>>,
               zfec_padding_size  |-> <<"zfec-padding-size", GeneratorNext(n).data>>,
               segment_adler32    |-> <<"adler32", GeneratorNext(n).data>>,
               segment_md5_digest |-> b64encode(GeneratorNext(n).hash),
               data               |-> GeneratorNext(n).data ]

ArchiveResults == {"success", "error"}
ArchiveReplyType(message_type) ==
    CASE message_type = "archive-key-entire" -> "archive-key-entire-reply"
      [] message_type = "archive-key-start" -> "archive-key-start-reply"
      [] message_type = "archive-key-next" -> "archive-key-next-reply"
      [] message_type = "archive-key-final" -> "archive-key-final-reply"
ArchiveReply(message, result) ==
    [ message_type |-> ArchiveReplyType(message.message_type),
      result       |-> result ]

LastQueued(client) == client[Len(client)].control

\* ResilientClient._send_message: the control part as it goes on the wire
_send_message(message) == message.control @@ [client_tag |-> "forwarder"]

\* the fields of the message _handle_retrieve_key_start reads
RetrieveKeyStartFields ==
    {"client_tag", "message_id", "segment_unified_id", "segment_conjoined_part",
     "segment_num"}
\* the fields of the message _handle_retrieve_key_next reads
RetrieveKeyNextFields ==
    {"client_tag", "message_id", "segment_unified_id", "segment_num"}
\* message[field] on a field the message does not have
KeyError(message) ==
    LET fields == IF message.message_type = "retrieve-key-start"
                  THEN RetrieveKeyStartFields ELSE RetrieveKeyNextFields
    IN  ~(fields \subseteq DOMAIN message)

ReaderReplies ==
    \/ SendRetrieveStartReply(RetrieveKeyReply(Len(reader_client)))
    \/ SendRetrieveNextReply(RetrieveKeyReply(Len(reader_client)))
WriterReplies ==
    \E result \in ArchiveResults :
        \/ SendFirstArchiveReply(ArchiveReply(LastQueued(writer_client), result))
        \/ SendArchiveReply(ArchiveReply(LastQueued(writer_client), result))

forwarder_coroutine ==
    \/ Start /\ UNCHANGED exceptForwarder
    \/ ReaderReplies /\ UNCHANGED exceptForwarder
    \/ WriterReplies /\ UNCHANGED exceptForwarder
    \/ Return /\ UNCHANGED exceptForwarder

(***************************************************************************)
(* Part 4: the anti entropy auditor                                        *)
(***************************************************************************)
\* _node_names: one anti entropy client for each
NodeNames == {"node-1", "node-2"}
CollectionIds == {1, 2}
\* anti_entropy_server.common.max_retry_count
max_retry_count == 1
_error_reply == [count |-> 0, encoded_md5_digest |-> "*** error ***"]
\* client_tag=None
NoClientTag == "None"

\* the digests a node can report, each with the row count it stands for
Digests == {"digest-a", "digest-b"}
RowCount(encoded_md5_digest) == IF encoded_md5_digest = "digest-a" THEN 1 ELSE 2

\* no request was decided
Undecided ==
    [ collection_id |-> 0, client_tag |-> NoClientTag, timestamp |-> 0,
      retry_count |-> 0, replies |-> <<>>, row_id |-> 0 ]

\* the anti-entropy-audit-request messages of the clients
AuditRequests ==
    { [collection_id |-> 1, client_tag |-> "client-1"],
      [collection_id |-> 2, client_tag |-> "client-2"] }

\* _create_state, and an empty audit table
AuditorInit ==
    /\ audit_requests = <<>>
    /\ retry_list = <<>>
    /\ audit_rows = <<>>
    /\ last_timestamp = 0
    /\ consistency_checks = {}
    /\ events = <<>>
    /\ audit_replies = <<>>
    /\ decided = Undecided

(***************************************************************************)
(* AuditResultDatabase: the audit rows, with the state of each.            *)
(***************************************************************************)
start_audit(rows, collection_id) ==
    Append(rows, [collection_id |-> collection_id, state |-> "started"])
SetRowState(rows, row_id, state) == [rows EXCEPT ![row_id].state = state]
restart_audit(rows, row_id) == SetRowState(rows, row_id, "started")
successful_audit(rows, row_id) == SetRowState(rows, row_id, "successful")
audit_error(rows, row_id) == SetRowState(rows, row_id, "error")
wait_for_retry(rows, row_id) == SetRowState(rows, row_id, "wait-for-retry")

\* _request_state_tuple(...) with replies=dict(); the timeout is left out
RequestState(client_tag, timestamp, retry_count, row_id) ==
    [ client_tag  |-> client_tag,
      timestamp   |-> timestamp,
      retry_count |-> retry_count,
      replies     |-> <<>>,
      row_id      |-> row_id ]

\* the request queued on every anti entropy client
ConsistencyCheck(collection_id, timestamp) ==
    [collection_id |-> collection_id, timestamp |-> timestamp]

\* a step that completes no audit
NothingDecided ==
    /\ events' = <<>>
    /\ audit_replies' = <<>>
    /\ decided' = Undecided

\* _start_consistency_check(state, collection_id, row_id, retry_count)
_start_consistency_check(collection_id, row_id, retry_count) ==
    LET timestamp == last_timestamp + 1
        state_key == <<collection_id, timestamp>>
        new_row_id == IF row_id = 0 THEN Len(audit_rows) + 1 ELSE row_id
    IN
    /\ last_timestamp < MaxAudits
    /\ last_timestamp' = timestamp
    /\ audit_rows' = IF row_id = 0
                     THEN start_audit(audit_rows, collection_id)
                     ELSE restart_audit(audit_rows, row_id)
    /\ audit_requests' =
          Store(audit_requests, state_key,
                RequestState(NoClientTag, timestamp, retry_count, new_row_id))
    /\ consistency_checks' =
          consistency_checks \cup {ConsistencyCheck(collection_id, timestamp)}
    /\ NothingDecided

\* _handle_anti_entropy_audit_request
_handle_anti_entropy_audit_request(message) ==
    LET timestamp == last_timestamp + 1
        state_key == <<message.collection_id, timestamp>>
        row_id == Len(audit_rows) + 1
    IN
    /\ last_timestamp < MaxAudits
    /\ last_timestamp' = timestamp
    /\ audit_rows' = start_audit(audit_rows, message.collection_id)
    /\ audit_requests' =
          Store(audit_requests, state_key,
                RequestState(message.client_tag, timestamp, max_retry_count, row_id))
    /\ consistency_checks' =
          consistency_checks \cup {ConsistencyCheck(message.collection_id, timestamp)}
    /\ NothingDecided
    /\ UNCHANGED retry_list

\* the consistency-check-reply messages of the nodes
ConsistencyCheckReplies ==
    { [ node_name |-> n, collection_id |-> request.collection_id,
        timestamp |-> request.timestamp, result |-> "error",
        count |-> 0, encoded_md5_digest |-> "None" ] :
        n \in NodeNames, request \in consistency_checks }
    \cup
    { [ node_name |-> n, collection_id |-> request.collection_id,
        timestamp |-> request.timestamp, result |-> "success",
        count |-> RowCount(d), encoded_md5_digest |-> d ] :
        n \in NodeNames, request \in consistency_checks, d \in Digests }

\* the value kept for a node's reply
ReplyValue(message) ==
    IF message.result # "success"
    THEN _error_reply
    ELSE [count |-> message.count, encoded_md5_digest |-> message.encoded_md5_digest]

\* md5_digest_dict[_error_reply]: the nodes that replied with an error
ErrorReplyList(replies) == {n \in DOMAIN replies : replies[n] = _error_reply}
\* md5_digest_dict without the error entry: the nodes of each digest
Md5DigestDict(replies) ==
    LET digests == {replies[n].encoded_md5_digest :
                        n \in DOMAIN replies \ ErrorReplyList(replies)}
    IN  [d \in digests |->
            {n \in DOMAIN replies : replies[n].encoded_md5_digest = d}]

\* "if reply is not None": the audit was started by an anti-entropy-audit-request
NeverExplicit(request_state) == FALSE
IsExplicit(request_state) == request_state.client_tag # NoClientTag

\* "if request_state.retry_count >= max_retry_count"
AlwaysRetries(request_state) == FALSE
NeverRetries(request_state) == TRUE
TooManyRetries(request_state) == request_state.retry_count >= max_retry_count

\* "ok = no errors and all nodes have the same hash"
AnyDigestsOk(replies) == ErrorReplyList(replies) = {}
ComparesOk(replies) ==
    /\ Cardinality(ErrorReplyList(replies)) = 0
    /\ Cardinality(DOMAIN Md5DigestDict(replies)) = 1

\* a test that takes any error reply for "the non-errors compare ok"
AnyErrors(replies) == Cardinality(ErrorReplyList(replies)) > 0
\* "we have error(s), but the non-errors compare ok"
ErrorsOnly(replies) ==
    /\ Cardinality(ErrorReplyList(replies)) > 0
    /\ Cardinality(DOMAIN Md5DigestDict(replies)) = 1

\* an audit reply whose result is that of the reply that came last
ReplyOfLast(message, request_state, replies, result) ==
    [ message_type      |-> "anti-entropy-audit-reply",
      client_tag        |-> request_state.client_tag,
      collection_id     |-> message.collection_id,
      result            |-> IF message.result = "success" THEN "success" ELSE "error",
      error_reply_nodes |-> ErrorReplyList(replies),
      mismatch_nodes    |-> {} ]

\* the anti-entropy-audit-reply of an audit
AuditReply(message, request_state, replies, result) ==
    [ message_type      |-> "anti-entropy-audit-reply",
      client_tag        |-> request_state.client_tag,
      collection_id     |-> message.collection_id,
      result            |-> result,
      error_reply_nodes |-> ErrorReplyList(replies),
      mismatch_nodes    |-> IF Cardinality(DOMAIN Md5DigestDict(replies)) > 1
                            THEN {Md5DigestDict(replies)[d] :
                                    d \in DOMAIN Md5DigestDict(replies)}
                            ELSE {} ]

\* retry_entry_tuple(...)
RetryEntry(message, request_state) ==
    [ retry_time    |-> "retry_time()",
      collection_id |-> message.collection_id,
      row_id        |-> request_state.row_id,
      retry_count   |-> request_state.retry_count ]

\* the handler leaves the audit as it is
Outcome(event_list, reply_list, rows, retries) ==
    /\ events' = event_list
    /\ audit_replies' = reply_list
    /\ audit_rows' = rows
    /\ retry_list' = retries

\* _handle_consistency_check_reply, once every node has replied
Decide(message, request_state, replies) ==
    LET row_id == request_state.row_id
    IN
    IF ComparesOk(replies)
    THEN Outcome(<<"audit-ok">>,
                 IF IsExplicit(request_state)
                 THEN <<AuditReply(message, request_state, replies, "success")>>
                 ELSE <<>>,
                 successful_audit(audit_rows, row_id), retry_list)
    ELSE IF ErrorsOnly(replies)
    THEN IF IsExplicit(request_state)
         THEN Outcome(<<"consistency-check-errors-replies">>,
                      <<AuditReply(message, request_state, replies, "error")>>,
                      audit_error(audit_rows, row_id), retry_list)
         ELSE IF TooManyRetries(request_state)
         THEN Outcome(<<"audit-errors">>, <<>>,
                      audit_error(audit_rows, row_id), retry_list)
         ELSE Outcome(<<"audit-retry">>, <<>>,
                      wait_for_retry(audit_rows, row_id),
                      Append(retry_list, RetryEntry(message, request_state)))
    ELSE IF IsExplicit(request_state)
         THEN Outcome(<<"audit-retry">>,
                      <<AuditReply(message, request_state, replies, "audit-error")>>,
                      audit_error(audit_rows, row_id), retry_list)
         ELSE IF TooManyRetries(request_state)
         THEN Outcome(<<"audit-retry">>, <<>>,
                      audit_error(audit_rows, row_id), retry_list)
         ELSE Outcome(<<"audit-retry">>, <<>>,
                      wait_for_retry(audit_rows, row_id),
                      Append(retry_list, RetryEntry(message, request_state)))

\* a handler that takes the last reply of a node
NeverDuplicateReply(request_state, message) == FALSE
\* "if message["node-name"] in request_state.replies"
DuplicateReply(request_state, message) ==
    message.node_name \in DOMAIN request_state.replies

\* a handler that decides on whatever it has
DoneAtOnce(replies) == FALSE
\* "not done yet, wait for more replies"
NotDoneYet(replies) == Cardinality(DOMAIN replies) < Cardinality(NodeNames)

\* _handle_consistency_check_reply
_handle_consistency_check_reply(message) ==
    LET state_key == <<message.collection_id, message.timestamp>>
    IN
    /\ UNCHANGED <<last_timestamp, consistency_checks>>
    /\ IF state_key \notin DOMAIN audit_requests
       THEN /\ NothingDecided
            /\ UNCHANGED <<audit_requests, retry_list, audit_rows>>
       ELSE LET request_state == audit_requests[state_key]
                replies == Store(request_state.replies, message.node_name,
                                 ReplyValue(message))
            IN  IF DuplicateReply(request_state, message)
                THEN /\ NothingDecided
                     /\ UNCHANGED <<audit_requests, retry_list, audit_rows>>
                ELSE IF NotDoneYet(replies)
                THEN /\ audit_requests' =
                            [audit_requests EXCEPT ![state_key].replies = replies]
                     /\ NothingDecided
                     /\ UNCHANGED <<retry_list, audit_rows>>
                ELSE /\ audit_requests' = Pop(audit_requests, state_key)
                     /\ decided' = [request_state EXCEPT !.replies = replies]
                                      @@ [collection_id |-> message.collection_id]
                     /\ Decide(message, request_state, replies)

(***************************************************************************)
(* The callers of the handlers: the consistency check starter and the      *)
(* retry manager, which start audits, and the messages of the dispatch     *)
(* table.                                                                  *)
(***************************************************************************)
ConsistencyCheckStarter ==
    \E collection_id \in CollectionIds :
        /\ _start_consistency_check(collection_id, 0, 0)
        /\ UNCHANGED retry_list

\* the list without its i-th entry
Without(list, i) == SubSeq(list, 1, i - 1) \o SubSeq(list, i + 1, Len(list))

RetryManager ==
    \E i \in 1..Len(retry_list) :
        /\ _start_consistency_check(retry_list[i].collection_id, retry_list[i].row_id,
                                    retry_list[i].retry_count + 1)
        /\ retry_list' = Without(retry_list, i)

AuditRequest ==
    \E message \in AuditRequests : _handle_anti_entropy_audit_request(message)

ConsistencyCheckReply ==
    \E message \in ConsistencyCheckReplies :
        _handle_consistency_check_reply(message)

AuditorNext ==
    \/ ConsistencyCheckStarter /\ UNCHANGED exceptAuditor
    \/ RetryManager /\ UNCHANGED exceptAuditor
    \/ AuditRequest /\ UNCHANGED exceptAuditor
    \/ ConsistencyCheckReply /\ UNCHANGED exceptAuditor

(***************************************************************************)
(* Part 5: the segment table of a node (nimbusio_node.segment), the        *)
(* consistency check of the anti entropy server and the listmatcher of     *)
(* the web server, which both read it.  Keys are sequences of characters.  *)
(***************************************************************************)
\* tools.data_definitions: the values of segment.status
segment_status_active == "A"
segment_status_cancelled == "C"
segment_status_final == "F"
segment_status_tombstone == "T"

\* the code point of a character
ord(c) == CASE c = "/" -> 47 [] c = "a" -> 97 [] c = "b" -> 98

\* key1 < key2 as strings
RECURSIVE StrLess(_, _)
StrLess(key1, key2) ==
    IF key2 = <<>> THEN FALSE
    ELSE IF key1 = <<>> THEN TRUE
    ELSE IF Head(key1) # Head(key2) THEN ord(Head(key1)) < ord(Head(key2))
    ELSE StrLess(Tail(key1), Tail(key2))

\* the id of the version written at a timestamp (ids are issued in time order)
UnifiedId(timestamp) == 100 + timestamp

\* "order by key, timestamp" (direction 1), "order by key asc, timestamp desc"
\* (direction -1)
RECURSIVE OrderBy(_, _)
OrderBy(rows, direction) ==
    IF rows = {} THEN <<>>
    ELSE LET first == CHOOSE r \in rows : \A s \in rows \ {r} :
                        \/ StrLess(r.key, s.key)
                        \/ /\ r.key = s.key
                           /\ direction * r.timestamp < direction * s.timestamp
         IN  <<first>> \o OrderBy(rows \ {first}, direction)

\* a writer adds a row: archive, destroy, or an archive taken for another node
InsertRow(rows) ==
    /\ Cardinality(segment) < MaxRows
    /\ \E row \in rows :
          segment' = segment \cup
                {row @@ [ timestamp  |-> Cardinality(segment) + 1,
                          unified_id |-> UnifiedId(Cardinality(segment) + 1) ]}

(***************************************************************************)
(* _handle_consistency_check of the anti entropy server                    *)
(***************************************************************************)
NoCheckReply == [collection_id |-> 0, count |-> 0, encoded_md5_digest |-> <<>>]

\* the rows a node can hold when its consistency check is observed
CheckRows ==
    [ collection_id             : CollectionIds,
      key                       : {<<"a">>, <<"b">>},
      status                    : {segment_status_active, segment_status_final},
      handoff_node_id           : {"None", "node-2"},
      file_hash                 : {"hash-1", "hash-2"},
      file_tombstone_unified_id : {0} ]

\* the rows of the select statement, in its order
ConsistencyCheckRows(collection_id) ==
    OrderBy({row \in segment : /\ row.collection_id = collection_id
                               /\ row.status = "A"
                               /\ row.handoff_node_id = "None"}, 1)

\* md5.update(key); md5.update(repr(timestamp)); md5.update(str(file_hash))
RECURSIVE HashedData(_)
HashedData(rows) ==
    IF rows = <<>> THEN <<>>
    ELSE Head(rows).key \o <<<<"repr", Head(rows).timestamp>>>>
            \o <<<<"str", Head(rows).file_hash>>>> \o HashedData(Tail(rows))

_handle_consistency_check(message) ==
    /\ check_reply' =
          [ collection_id      |-> message.collection_id,
            count              |-> Len(ConsistencyCheckRows(message.collection_id)),
            encoded_md5_digest |->
                b64encode(MD5(HashedData(ConsistencyCheckRows(message.collection_id)))) ]
    /\ UNCHANGED <<segment, listed, test>>

CheckNext ==
    \/ /\ InsertRow(CheckRows)
       /\ check_reply' = NoCheckReply
       /\ UNCHANGED <<listed, test>>
       /\ UNCHANGED exceptDatabase
    \/ /\ \E collection_id \in CollectionIds :
            _handle_consistency_check(ConsistencyCheck(collection_id, 0))
       /\ UNCHANGED exceptDatabase

(***************************************************************************)
(* listmatcher.py: list_keys and list_versions.  The conjoined table is    *)
(* empty, so the join drops no row.                                        *)
(***************************************************************************)
\* the keys, prefixes, delimiters and markers of the calls
Keys == {<<"/", "a">>, <<"a", "/", "b">>, <<"b">>}
Prefixes == {<<>>, <<"a">>}
Delimiters == {<<>>, <<"/">>}
Markers == {<<>>, <<"a", "/", "b">>}

\* the rows a node can hold when its listings are observed: versioned
\* tombstones delete the first version written, the key "/a" is archived and
\* never destroyed, and rows of another collection or rows held for another
\* node are final rows of the key "b"
ListRows ==
    {row \in [ collection_id             : CollectionIds,
               key                       : Keys,
               status                    : {segment_status_active, segment_status_cancelled,
                                            segment_status_final, segment_status_tombstone},
               handoff_node_id           : {"None", "node-2"},
               file_tombstone_unified_id : {0, UnifiedId(1)} ] :
        /\ row.file_tombstone_unified_id # 0
              => row.status = segment_status_tombstone /\ row.key = <<"a", "/", "b">>
        /\ row.key = <<"/", "a">> => row.status = segment_status_final
        /\ row.key = <<"b">> => row.status # segment_status_cancelled
        /\ (row.collection_id # 1 \/ row.handoff_node_id # "None")
              => row.status = segment_status_final /\ row.key = <<"b">>
        /\ row.collection_id # 1 => row.handoff_node_id = "None"}

\* "seg.key like prefix%"
StartsWith(key, prefix) ==
    /\ Len(prefix) <= Len(key)
    /\ SubSeq(key, 1, Len(prefix)) = prefix

\* key.find(delimiter, start): the first position from start on, or -1
find(key, delimiter, start) ==
    LET found == {p \in start..(Len(key) - Len(delimiter)) :
                    SubSeq(key, p + 1, p + Len(delimiter)) = delimiter}
    IN  IF found = {} THEN -1 ELSE CHOOSE p \in found : \A q \in found : p <= q

\* result[:n], and "limit n"
FirstRows(result, n) == SubSeq(result, 1, IF n < Len(result) THEN n ELSE Len(result))

\* the where clause both select statements share
Matching(collection_id, prefix, marker) ==
    {row \in segment : /\ row.collection_id = collection_id
                       /\ row.handoff_node_id = "None"
                       /\ StartsWith(row.key, prefix)
                       /\ StrLess(marker, row.key)}

KeysEntry(row) ==
    [ key                |-> row.key,
      version_identifier |-> row.unified_id,
      timestamp_repr     |-> <<"repr", row.timestamp>> ]

\* prev_key = None
NoKey == <<"None">>

\* mutations of the loop of list_keys
NeverSamePrevKey(row, prev_key) == FALSE
NeverUnfinished(row) == FALSE
\* "if row.key == prev_key: continue"
SamePrevKey(row, prev_key) == row.key = prev_key
\* "if row.status in [segment_status_active, segment_status_cancelled, ]"
Unfinished(row) == row.status \in {segment_status_active, segment_status_cancelled}

\* the loop of list_keys over result[:max_keys]
RECURSIVE KeyList(_, _)
KeyList(rows, prev_key) ==
    IF rows = <<>> THEN <<>>
    ELSE IF SamePrevKey(Head(rows), prev_key) THEN KeyList(Tail(rows), prev_key)
    ELSE IF Unfinished(Head(rows)) THEN KeyList(Tail(rows), prev_key)
    ELSE IF Head(rows).status = segment_status_tombstone
    THEN KeyList(Tail(rows), Head(rows).key)
    ELSE <<KeysEntry(Head(rows))>> \o KeyList(Tail(rows), Head(rows).key)

\* the loop of list_versions over result[:max_keys]; 0 is None
RECURSIVE VersionList(_, _, _)
VersionList(rows, tombstone_key, tombstone_unified_id) ==
    IF rows = <<>> THEN <<>>
    ELSE LET row == Head(rows)
         IN  IF tombstone_key # NoKey /\ row.key = tombstone_key
             THEN VersionList(Tail(rows), tombstone_key, tombstone_unified_id)
             ELSE IF /\ tombstone_unified_id # 0
                     /\ row.file_tombstone_unified_id = tombstone_unified_id
             THEN VersionList(Tail(rows), tombstone_key, 0)
             ELSE IF row.status = segment_status_tombstone
             THEN IF row.file_tombstone_unified_id = 0
                  THEN VersionList(Tail(rows), row.key, 0)
                  ELSE VersionList(Tail(rows), NoKey, row.file_tombstone_unified_id)
             ELSE IF Unfinished(row)
             THEN VersionList(Tail(rows), tombstone_key, tombstone_unified_id)
             ELSE <<KeysEntry(row)>>
                    \o VersionList(Tail(rows), tombstone_key, tombstone_unified_id)

\* the prefix_set of both functions
PrefixSet(key_list, prefix, delimiter) ==
    {SubSeq(key_list[i].key, 1, find(key_list[i].key, delimiter, Len(prefix)) + 1) :
        i \in {j \in 1..Len(key_list) :
                find(key_list[j].key, delimiter, Len(prefix)) > 0}}

\* what both functions return: key_data, or prefixes with a delimiter
Listing(key_list, truncated, prefix, delimiter) ==
    IF delimiter = <<>>
    THEN [key_data |-> key_list, prefixes |-> {}, truncated |-> truncated]
    ELSE [key_data |-> <<>>, prefixes |-> PrefixSet(key_list, prefix, delimiter),
          truncated |-> truncated]

list_keys(collection_id, prefix, max_keys, delimiter, marker) ==
    LET request_count == max_keys + 1
        result == FirstRows(OrderBy(Matching(collection_id, prefix, marker), -1),
                            request_count)
    IN  Listing(KeyList(FirstRows(result, max_keys), NoKey),
                Len(result) = request_count, prefix, delimiter)

list_versions(collection_id, prefix, max_keys, delimiter, key_marker, version_id_marker) ==
    LET request_count == max_keys + 1
        result == FirstRows(
                    OrderBy({row \in Matching(collection_id, prefix, key_marker) :
                                row.unified_id > version_id_marker}, -1),
                    request_count)
    IN  Listing(VersionList(FirstRows(result, max_keys), NoKey, 0),
                Len(result) = request_count, prefix, delimiter)

\* no list function has been called
NotListed ==
    [ function |-> "None", prefix |-> <<>>, max_keys |-> 0, delimiter |-> <<>>,
      marker |-> <<>>, key_data |-> <<>>, prefixes |-> {}, truncated |-> FALSE ]

\* a call of the web server for collection 1, and what it returned
Call(function, prefix, max_keys, delimiter, marker) ==
    [ function |-> function, prefix |-> prefix, max_keys |-> max_keys,
      delimiter |-> delimiter, marker |-> marker ]

ListKeys ==
    /\ listed = NotListed
    /\ \E prefix \in Prefixes, max_keys \in 1..MaxRows, delimiter \in Delimiters,
          marker \in Markers :
          listed' = Call("list_keys", prefix, max_keys, delimiter, marker)
                        @@ list_keys(1, prefix, max_keys, delimiter, marker)
    /\ UNCHANGED <<segment, check_reply, test>>

ListVersions ==
    /\ listed = NotListed
    /\ \E prefix \in Prefixes, max_keys \in 1..MaxRows, delimiter \in Delimiters,
          marker \in Markers :
          listed' = Call("list_versions", prefix, max_keys, delimiter, marker)
                        @@ list_versions(1, prefix, max_keys, delimiter, marker, 0)
    /\ UNCHANGED <<segment, check_reply, test>>

ListNext ==
    \/ /\ listed = NotListed
       /\ InsertRow(ListRows)
       /\ UNCHANGED <<check_reply, listed, test>>
       /\ UNCHANGED exceptDatabase
    \/ ListKeys /\ UNCHANGED exceptDatabase
    \/ ListVersions /\ UNCHANGED exceptDatabase

(***************************************************************************)
(* Part 6: writing a segment and reading it back, as test_simple_segment   *)
(* of test_read_and_write.py does.  Writer, Reader and                     *)
(* most_recent_timestamp_for_key are described by the specification.       *)
(***************************************************************************)
\* the keys of the test
TestKeys == {<<"a">>, <<"b">>}

\* zlib.adler32(data), len(data)
adler32(data) == <<"adler32", data>>
len(data) == <<"len", data>>

\* the rows the table can hold before the test: one segment of another
\* write, older than the timestamp the test creates
OlderRows ==
    [ collection_id   : CollectionIds,
      key             : TestKeys,
      timestamp       : {1},
      segment_num     : {SegmentNum},
      status          : {segment_status_active, segment_status_final},
      file_size       : {len("b")},
      file_adler32    : {adler32("b")},
      file_hash       : {MD5("b")},
      file_tombstone  : {FALSE},
      handoff_node_id : {"None"} ]

NoFileInfo ==
    [ timestamp |-> 0, segment_num |-> 0, file_size |-> <<>>, file_adler32 |-> <<>>,
      file_hash |-> <<>>, file_tombstone |-> FALSE ]

\* the test is not run
NotRun ==
    [ line |-> "None", collection_id |-> 0, key |-> <<>>, timestamp |-> 0, data |-> "None",
      file_tombstone |-> FALSE, file_info |-> NoFileInfo, sequence_count |-> -1,
      sequence_data |-> "None" ]

RoundTripInit ==
    /\ segment \in {{}} \cup {{row} : row \in OlderRows}
    /\ test \in [ line           : {"start_new_segment"},
                  collection_id  : CollectionIds,
                  key            : TestKeys,
                  timestamp      : {2},
                  data           : DataContents,
                  file_tombstone : BOOLEAN,
                  file_info      : {NoFileInfo},
                  sequence_count : {-1},
                  sequence_data  : {"None"} ]

\* the segment row of the test
TestRow(row_status, file_size, file_adler32, file_hash, file_tombstone) ==
    [ collection_id   |-> test.collection_id,
      key             |-> test.key,
      timestamp       |-> test.timestamp,
      segment_num     |-> SegmentNum,
      status          |-> row_status,
      file_size       |-> file_size,
      file_adler32    |-> file_adler32,
      file_hash       |-> file_hash,
      file_tombstone  |-> file_tombstone,
      handoff_node_id |-> "None" ]

\* writer.start_new_segment: a row with status active
start_new_segment ==
    /\ test.line = "start_new_segment"
    /\ segment' = segment \cup {TestRow(segment_status_active, <<>>, <<>>, <<>>, FALSE)}
    /\ test' = [test EXCEPT !.line = "store_sequence"]
    /\ UNCHANGED sequence_rows

\* writer.store_sequence: the bytes go to the value file, with their md5
store_sequence ==
    /\ test.line = "store_sequence"
    /\ sequence_rows' = Append(sequence_rows,
                               [data |-> test.data, hash |-> MD5(test.data),
                                readable |-> TRUE])
    /\ test' = [test EXCEPT !.line = "finish_new_segment"]
    /\ UNCHANGED segment

\* writer.finish_new_segment: the row becomes final with the declared values
finish_new_segment ==
    /\ test.line = "finish_new_segment"
    /\ segment' = {row \in segment : ~(/\ row.collection_id = test.collection_id
                                       /\ row.key = test.key
                                       /\ row.timestamp = test.timestamp)}
                    \cup {TestRow(segment_status_final, len(test.data), adler32(test.data),
                                  MD5(test.data), test.file_tombstone)}
    /\ test' = [test EXCEPT !.line = "most_recent_timestamp_for_key"]
    /\ UNCHANGED sequence_rows

\* a lookup that takes the oldest finalized segment
oldest_timestamp_for_key(collection_id, key) ==
    LET rows == {row \in segment : /\ row.collection_id = collection_id
                                   /\ row.key = key
                                   /\ row.status = segment_status_final}
    IN  CHOOSE row \in rows : \A other \in rows : row.timestamp <= other.timestamp
\* the metadata of the highest-timestamp finalized segment of the key
most_recent_timestamp_for_key(collection_id, key) ==
    LET rows == {row \in segment : /\ row.collection_id = collection_id
                                   /\ row.key = key
                                   /\ row.status = segment_status_final}
    IN  CHOOSE row \in rows : \A other \in rows : other.timestamp <= row.timestamp

\* file_info = most_recent_timestamp_for_key(connection, collection_id, key)
LookUp ==
    /\ test.line = "most_recent_timestamp_for_key"
    /\ LET row == most_recent_timestamp_for_key(test.collection_id, test.key)
       IN  test' = [test EXCEPT
                      !.line = "sequence_count",
                      !.file_info = [ timestamp      |-> row.timestamp,
                                      segment_num    |-> row.segment_num,
                                      file_size      |-> row.file_size,
                                      file_adler32   |-> row.file_adler32,
                                      file_hash      |-> row.file_hash,
                                      file_tombstone |-> row.file_tombstone ]]
    /\ UNCHANGED <<segment, sequence_rows>>

\* sequence_count = sequence_generator.next()
NextCount ==
    /\ test.line = "sequence_count"
    /\ test' = [test EXCEPT !.line = "sequence_data",
                            !.sequence_count = GeneratorRowCount]
    /\ UNCHANGED <<segment, sequence_rows>>

\* sequence_data = sequence_generator.next()
NextData ==
    /\ test.line = "sequence_data"
    /\ ~GeneratorRaises(1)
    /\ test' = [test EXCEPT !.line = "done",
                            !.sequence_data = GeneratorNext(1).data]
    /\ UNCHANGED <<segment, sequence_rows>>

test_simple_segment ==
    /\ \/ start_new_segment
       \/ store_sequence
       \/ finish_new_segment
       \/ LookUp
       \/ NextCount
       \/ NextData
    /\ UNCHANGED <<active_requests, reply, conversation, check_reply, listed>>
    /\ UNCHANGED <<clientVars, forwarderVars, auditorVars, slicerVars>>

\* the data reader serves the segment once it is written
RetrieveWritten ==
    /\ test.line = "done"
    /\ RetrieveKeyStart
    /\ UNCHANGED <<clientVars, forwarderVars, auditorVars, databaseVars, slicerVars>>

RoundTripNext == test_simple_segment \/ RetrieveWritten

ReaderNext ==
    \/ RetrieveKeyStart /\ UNCHANGED exceptReader
    \/ RetrieveKeyNext /\ UNCHANGED exceptReader
    \/ ReaderTick /\ UNCHANGED exceptReader
    \/ StateCleaner /\ UNCHANGED exceptReader

(***************************************************************************)
(* Part 7: web_server/data_slicer.py, the DataSlicer that splits an        *)
(* uploaded file into slices                                               *)
(***************************************************************************)
\* total_size=None
NoTotalSize == -1
Min(a, b) == IF a <= b THEN a ELSE b

\* the uploaded files: byte i of a file is i, so that a byte lost, doubled
\* or out of place shows
Contents == { [i \in 1..n |-> i] : n \in 0..MaxContent }
SliceSizes == 1..MaxContent
TotalSizes(content) == {NoTotalSize} \cup 0..Len(content)

\* no slicer has been constructed
NoSlicer ==
    [ content |-> <<>>, pos |-> 0, slice_size |-> 1, total_size |-> NoTotalSize,
      remaining |-> NoTotalSize, buf |-> <<>>, returned |-> <<>>, slices |-> <<>>,
      stopped |-> TRUE ]

\* DataSlicer(file_obj, slice_size, total_size): file_obj is at the start of
\* content; slices is the concatenation of what next has returned
DataSlicer(content, slice_size, total_size) ==
    [ content |-> content, pos |-> 0, slice_size |-> slice_size,
      total_size |-> total_size, remaining |-> total_size, buf |-> <<>>,
      returned |-> <<>>, slices |-> <<>>, stopped |-> FALSE ]

\* file_obj.read(size) with available bytes left in the file: the number of
\* bytes it returns; a short read returns fewer than asked, none only when
\* none is asked or none is left
read(size, available) ==
    IF Min(size, available) = 0 THEN {0} ELSE 1..Min(size, available)

\* the while loop of next: the states it can leave the loop in, from buf
\* and remaining and the position of the file; eof is 'not data'
RECURSIVE Fill(_, _, _)
Fill(buf, remaining, pos) ==
    IF Len(buf) >= slicer.slice_size
    THEN {[buf |-> buf, remaining |-> remaining, pos |-> pos, eof |-> FALSE]}
    ELSE LET size == IF slicer.total_size # NoTotalSize
                     THEN Min(slicer.slice_size, remaining)
                     ELSE slicer.slice_size
         IN  UNION { IF n = 0
                     THEN {[buf |-> buf, remaining |-> remaining, pos |-> pos,
                            eof |-> TRUE]}
                     ELSE Fill(buf \o SubSeq(slicer.content, pos + 1, pos + n),
                               IF slicer.total_size # NoTotalSize
                               THEN remaining - n ELSE remaining,
                               pos + n)
                   : n \in read(size, Len(slicer.content) - pos) }

\* next returns data
ReturnData(filled, data, buf) ==
    slicer' = [slicer EXCEPT !.buf = buf, !.remaining = filled.remaining,
                             !.pos = filled.pos, !.returned = data,
                             !.slices = @ \o data]
\* next raises StopIteration
StopIteration(remaining, pos) ==
    slicer' = [slicer EXCEPT !.remaining = remaining, !.pos = pos,
                             !.returned = <<>>, !.stopped = TRUE]

\* DataSlicer.next, called until it raises StopIteration
next ==
    /\ ~slicer.stopped
    /\ IF slicer.total_size # NoTotalSize /\ slicer.remaining = 0
       THEN StopIteration(slicer.remaining, slicer.pos)
       ELSE \E filled \in Fill(slicer.buf, slicer.remaining, slicer.pos) :
              IF filled.eof
              THEN IF filled.buf # <<>>
                   THEN ReturnData(filled, filled.buf, <<>>)
                   ELSE StopIteration(filled.remaining, filled.pos)
              ELSE ReturnData(filled,
                          SubSeq(filled.buf, 1, slicer.slice_size),
                          SubSeq(filled.buf, slicer.slice_size + 1, Len(filled.buf)))
    /\ UNCHANGED exceptSlicer

SlicerInit ==
    \E content \in Contents, slice_size \in SliceSizes :
        \E total_size \in TotalSizes(content) :
            slicer = DataSlicer(content, slice_size, total_size)

SlicerNext == next

(***************************************************************************)
(* Specifications: each observes one service, the others are at rest       *)
(***************************************************************************)
\* the reader at rest while another service is observed
ReaderIdle ==
    /\ sequence_rows = <<>>
    /\ active_requests = <<>>
    /\ reply = NoReply
    /\ conversation = [k \in StateKeys |-> <<>>]

\* the forwarder at rest while another service is observed
ForwarderIdle == ForwarderInit

\* the auditor at rest while another service is observed
AuditorIdle == AuditorInit

\* the segment table at rest: nothing written, nothing read
DatabaseIdle ==
    /\ segment = {}
    /\ check_reply = NoCheckReply
    /\ listed = NotListed
    /\ test = NotRun

\* no DataSlicer at work
SlicerIdle == slicer = NoSlicer

ReaderSpecInit == ClientInit /\ ReaderInit /\ ForwarderIdle /\ AuditorIdle /\ DatabaseIdle /\ SlicerIdle

ReaderSpec == ReaderSpecInit /\ [][ReaderNext]_vars

ForwarderSpecInit == ClientInit /\ ReaderInit /\ ForwarderInit /\ AuditorIdle /\ DatabaseIdle /\ SlicerIdle

ForwarderSpec == ForwarderSpecInit /\ [][forwarder_coroutine]_vars

AuditorSpecInit == ClientInit /\ ReaderIdle /\ ForwarderIdle /\ AuditorInit /\ DatabaseIdle /\ SlicerIdle

CheckSpecInit == ClientInit /\ ReaderIdle /\ ForwarderIdle /\ AuditorIdle /\ DatabaseIdle /\ SlicerIdle

CheckSpec == CheckSpecInit /\ [][CheckNext]_vars

ListSpecInit == ClientInit /\ ReaderIdle /\ ForwarderIdle /\ AuditorIdle /\ DatabaseIdle /\ SlicerIdle

ListSpec == ListSpecInit /\ [][ListNext]_vars

RoundTripSpecInit ==
    /\ ClientInit /\ ReaderIdle /\ ForwarderIdle /\ AuditorIdle
    /\ check_reply = NoCheckReply
    /\ listed = NotListed
    /\ RoundTripInit
    /\ SlicerIdle

RoundTripSpec == RoundTripSpecInit /\ [][RoundTripNext]_vars

SlicerSpecInit ==
    ClientInit /\ ReaderIdle /\ ForwarderIdle /\ AuditorIdle /\ DatabaseIdle /\ SlicerInit
\* the DataSlicer of every file, slice size and total size, iterated
SlicerSpec == SlicerSpecInit /\ [][SlicerNext]_vars

AuditorSpec == AuditorSpecInit /\ [][AuditorNext]_vars

(***************************************************************************)
(* Specifications of the resilient client                                  *)
(***************************************************************************)
Init == ClientInit /\ ReaderIdle /\ ForwarderIdle /\ AuditorIdle /\ DatabaseIdle /\ SlicerIdle

Next ==
    \/ Run /\ UNCHANGED exceptClient
    \/ Close /\ UNCHANGED exceptClient
    \/ (\E ok \in BOOLEAN : queue_message_for_send(ok)) /\ UNCHANGED exceptClient
    \/ ReceiveAck /\ UNCHANGED exceptClient
    \/ ReceiveUnexpected /\ UNCHANGED exceptClient
    \/ ServerReceive /\ UNCHANGED exceptClient
    \/ ServerReceiveLingering /\ UNCHANGED exceptClient
    \/ Tick /\ UNCHANGED exceptClient

Spec == Init /\ [][Next]_vars

(***************************************************************************)
(* Specification of the client with the acks the server really sends, no   *)
(* socket error and no close: the run task keeps firing, time passes, the  *)
(* server gets each kind of message and the client each kind of ack.       *)
(***************************************************************************)
LiveNext ==
    \/ run(TRUE) /\ UNCHANGED exceptClient
    \/ queue_message_for_send(TRUE) /\ UNCHANGED exceptClient
    \/ ReceiveAckWith(TRUE) /\ UNCHANGED exceptClient
    \/ ServerReceive /\ UNCHANGED exceptClient
    \/ ServerReceiveLingering /\ UNCHANGED exceptClient
    \/ Tick /\ UNCHANGED exceptClient

BusinessAck == ReceiveAckWith(TRUE) /\ IsBusiness(pending_message)
HandshakeAck == ReceiveAckWith(TRUE) /\ IsHandshake(pending_message)
ServerReceiveBusiness == ServerReceive /\ IsBusiness(Head(wire))
ServerReceiveHandshake == ServerReceive /\ IsHandshake(Head(wire))

LiveSpec ==
    /\ Init
    /\ [][LiveNext]_vars
    /\ WF_clientVars(run(TRUE))
    /\ WF_clientVars(Tick)
    /\ SF_clientVars(ServerReceiveBusiness)
    /\ SF_clientVars(ServerReceiveHandshake)
    /\ SF_clientVars(BusinessAck)
    /\ SF_clientVars(HandshakeAck)

QueueIds == {send_queue[i].id : i \in DOMAIN send_queue}

(***************************************************************************)
(* C1: at most one message (handshake or business) has been written to the *)
(* current socket without its ack received, and what a step writes becomes *)
(* the pending message.  queue_message_for_send writes its message only    *)
(* when connected with nothing pending and appends it to the send queue    *)
(* otherwise; any other step writes a business message only as the head of *)
(* the send queue, on the ack that matches the pending message.            *)
(***************************************************************************)
AtMostOneInFlight ==
    /\ [](/\ Cardinality(unacked) <= 1
          /\ sent # None => pending_message = sent /\ unacked = {sent.id})
    /\ [][/\ (next_message_id' # next_message_id /\ sent' # None)
               => status = _status_connected /\ pending_message = None
          /\ (next_message_id' # next_message_id /\ sent' = None /\ send_error' = None)
               => send_queue' = Append(send_queue, BusinessMessage(next_message_id))
          /\ (next_message_id' = next_message_id /\ IsBusiness(sent'))
               => /\ pending_message # None
                  /\ ack_in' = pending_message.id
                  /\ send_queue # <<>>
                  /\ sent' = Head(send_queue)
         ]_vars

AtMostOneInFlight_witness ==
    /\ status = _status_connected
    /\ IsBusiness(pending_message)
    /\ unacked = {pending_message.id}
    /\ send_queue # <<>>

(***************************************************************************)
(* C2: business messages are first written to the socket in the order of   *)
(* the queue_message_for_send calls (ids are given in call order), and the *)
(* message a step writes is older than every message left in the send      *)
(* queue, so a re-queued message goes before the ones queued after it.     *)
(***************************************************************************)
FifoTransmission ==
    [][IsBusiness(sent') =>
          /\ \A id \in QueueIds' : sent'.id < id
          /\ sent'.id \notin transmitted => \A id \in transmitted : id < sent'.id
      ]_vars

FifoTransmission_witness ==
    /\ IsBusiness(sent)
    /\ sent.id \in timed_out
    /\ send_queue # <<>>

(***************************************************************************)
(* C3 as claimed: the server receives no message-id twice.                 *)
(***************************************************************************)
AtMostOnceDelivery == received_again = {}

(***************************************************************************)
(* C3 as amended: the server receives a message-id more than once only if  *)
(* the client's wait for that message's ack timed out.                     *)
(***************************************************************************)
DuplicateOnlyAfterAckTimeout == received_again \subseteq timed_out

DuplicateOnlyAfterAckTimeout_witness ==
    /\ received_again # {}
    /\ acked # {}

(***************************************************************************)
(* C4: a run step of a connected client whose pending message has waited   *)
(* ack_timeout disconnects, closes the socket, clears the pending message  *)
(* and puts it at the head of the otherwise unchanged send queue.          *)
(***************************************************************************)
AckTimeoutRequeuesAtHead ==
    [][(/\ _handle_status_connected
        /\ pending_message # None
        /\ Now - pending_message_start_time >= AckTimeout)
       => /\ status' = _status_disconnected
          /\ dealer_socket' = NoSocket
          /\ pending_message' = None
          /\ send_queue' = <<pending_message>> \o send_queue
      ]_vars

AckTimeoutRequeuesAtHead_witness ==
    /\ status = _status_disconnected
    /\ pending_message = None
    /\ Len(send_queue) >= 2
    /\ Head(send_queue).id \in timed_out
    /\ status_time = Now

(***************************************************************************)
(* C5: when the run task keeps firing and the server and the acks keep     *)
(* getting through, every message passed to queue_message_for_send is      *)
(* eventually acked, and acks complete in submission order.                *)
(***************************************************************************)
EveryMessageAckedInOrder ==
    /\ \A id \in MessageIds :
          [](next_message_id > id => <>(id \in transmitted /\ id \in acked))
    /\ [](\A id \in acked : \A earlier \in 1..id : earlier \in acked)

EveryMessageAckedInOrder_witness ==
    /\ acked = MessageIds
    /\ timed_out # {}

\* C6: entering connected, and writing business messages (both as claimed)
ConnectedOnlyByHandshakeAck ==
    /\ (status' = _status_connected /\ status # _status_connected)
          => /\ status = _status_handshaking
             /\ IsHandshake(pending_message)
             /\ ack_in' = pending_message.id
    /\ IsBusiness(sent') => status' = _status_connected

\* C6: leaving disconnected, whatever the time spent there
LeavesDisconnectedByHandshake ==
    (status = _status_disconnected /\ status' # _status_disconnected)
       => /\ status' = _status_handshaking
          /\ dealer_socket = NoSocket
          /\ dealer_socket' = XREQ
          /\ IsHandshake(pending_message')
          /\ pending_message'.id \notin IdsInUse
          /\ sent' = pending_message' \/ send_error' = pending_message'

UnexpectedAckChangesNothing ==
    [][(/\ ack_in' # 0
        /\ pending_message = None \/ ack_in' # pending_message.id)
       => /\ UNCHANGED clientFields
          /\ sent' = None
          /\ UNCHANGED wire
      ]_vars

UnexpectedAckChangesNothing_witness ==
    /\ ack_in \in MessageIds
    /\ ack_in \notin acked
    /\ IsBusiness(pending_message)
    /\ send_queue # <<>>

(***************************************************************************)
(* C8: a socket write that fails leaves the client disconnected, its       *)
(* socket closed, and the message at the head of the send queue, not       *)
(* pending.                                                                *)
(***************************************************************************)
WriteFailureDisconnects ==
    send_error # None =>
        /\ status = _status_disconnected
        /\ dealer_socket = NoSocket
        /\ pending_message # send_error
        /\ IsBusiness(send_error) =>
              send_queue # <<>> /\ Head(send_queue) = send_error

\* the last success reply of the state key's conversation had completed = true
Finished(state_key) ==
    /\ conversation[state_key] # <<>>
    /\ conversation[state_key][Len(conversation[state_key])].completed = "True"

(***************************************************************************)
(* C9: the success replies of one conversation (retrieve-key-start, then   *)
(* retrieve-key-next) carry sequence-num 1, 2, ... in that order, the n-th *)
(* delivering the n-th stored sequence, and completed is true on the reply *)
(* whose sequence-num is the row count K and false on the earlier ones.    *)
(***************************************************************************)
SequencesInStorageOrder ==
    \A k \in StateKeys :
        /\ Len(conversation[k]) <= Len(sequence_rows)
        /\ \A n \in 1..Len(conversation[k]) :
              LET r == conversation[k][n]
              IN  /\ r.result = "success"
                  /\ r.message_type = IF n = 1 THEN "retrieve-key-start"
                                               ELSE "retrieve-key-next"
                  /\ r.sequence_num = n
                  /\ r.data = sequence_rows[n].data
                  /\ r.segment_md5_digest = b64encode(sequence_rows[n].hash)
                  /\ r.completed = IF n = Len(sequence_rows) THEN "True" ELSE "False"

SequencesInStorageOrder_witness ==
    \E k \in StateKeys :
        /\ Len(sequence_rows) >= 3
        /\ Len(conversation[k]) = Len(sequence_rows)
        /\ reply = conversation[k][Len(sequence_rows)]

(***************************************************************************)
(* C10: once a reply with completed = true was sent for a state key,       *)
(* active-requests holds no iterator for the key; a further                *)
(* retrieve-key-next for it is answered unknown-request and a new          *)
(* retrieve-key-start for it is not rejected as a duplicate.               *)
(***************************************************************************)
IteratorDiscardedWhenCompleted ==
    /\ [](\A k \in StateKeys : Finished(k) => k \notin DOMAIN active_requests)
    /\ [][\A tag \in ClientTags :
            LET k == <<tag, SegmentUnifiedId, SegmentNum>>
            IN  /\ (/\ Finished(k)
                    /\ _handle_retrieve_key_next(RetrieveMessage("retrieve-key-next", tag)))
                   => reply'.result = "unknown-request"
                /\ (/\ Finished(k)
                    /\ _handle_retrieve_key_start(RetrieveMessage("retrieve-key-start", tag)))
                   => reply'.result # "invalid-duplicate"
         ]_vars

IteratorDiscardedWhenCompleted_witness ==
    /\ Len(sequence_rows) > 1
    /\ reply.result = "unknown-request"
    /\ Finished(reply.state_key)

\* C10, the case K = 1: completed on the reply to retrieve-key-start
CompletedOnStart_witness ==
    /\ Len(sequence_rows) = 1
    /\ reply.result = "unknown-request"
    /\ Finished(reply.state_key)

(***************************************************************************)
(* C11: a retrieve-key-start for a state key that has an iterator is       *)
(* answered invalid-duplicate and a retrieve-key-next for a state key that *)
(* has none is answered unknown-request; both replies carry no data and    *)
(* leave active-requests (every iterator's position, read count and        *)
(* deadline) as it was.                                                    *)
(***************************************************************************)
DuplicateAndUnknownRejected ==
    [][\A k \in StateKeys :
          /\ (/\ reply'.state_key = k
              /\ reply'.message_type = "retrieve-key-start"
              /\ k \in DOMAIN active_requests)
             => /\ reply'.result = "invalid-duplicate"
                /\ reply'.data = "None"
                /\ active_requests' = active_requests
          /\ (/\ reply'.state_key = k
              /\ reply'.message_type = "retrieve-key-next"
              /\ k \notin DOMAIN active_requests)
             => /\ reply'.result = "unknown-request"
                /\ reply'.data = "None"
                /\ active_requests' = active_requests
      ]_vars

DuplicateAndUnknownRejected_witness ==
    /\ reply.result = "invalid-duplicate"
    /\ reply.state_key \in DOMAIN active_requests
    /\ active_requests[reply.state_key].sequence_read_count = 2
    /\ active_requests[reply.state_key].timeout = Now
    /\ \E k \in StateKeys : k \notin DOMAIN active_requests

(***************************************************************************)
(* C12: a success reply's data always has the MD5 of the digest the reply  *)
(* reports, and a step that reads a sequence whose bytes do not hash to    *)
(* the stored hash, in retrieve-key-start or in retrieve-key-next, replies *)
(* md5-mismatch without data.                                              *)
(***************************************************************************)
NoSuccessOnMd5Mismatch ==
    /\ [](reply.result = "success"
            => reply.segment_md5_digest = b64encode(MD5(reply.data)))
    /\ [][\A k \in StateKeys :
            LET position == IF k \in DOMAIN active_requests
                            THEN active_requests[k].generator + 1
                            ELSE 1
                asked == IF k \in DOMAIN active_requests
                         THEN "retrieve-key-next"
                         ELSE "retrieve-key-start"
            IN  (/\ reply'.state_key = k
                 /\ reply'.message_type = asked
                 /\ position <= Len(sequence_rows)
                 /\ sequence_rows[position].readable
                 /\ MD5(sequence_rows[position].data) # sequence_rows[position].hash)
                => /\ reply'.result = "md5-mismatch"
                   /\ reply'.data = "None"
         ]_vars

NoSuccessOnMd5Mismatch_witness ==
    /\ reply.result = "md5-mismatch"
    /\ reply.message_type = "retrieve-key-next"
    /\ Len(conversation[reply.state_key]) = 1

\* the replies of the reader the coroutine has received
RetrieveReplies == SelectSeq(received, LAMBDA r : r.message_type = "retrieve-key-reply")
\* the replies of the writer the coroutine has received
ArchiveReplies == SelectSeq(received, LAMBDA r : r.message_type # "retrieve-key-reply")

(***************************************************************************)
(* C13: the forwarder yields (segment_row, source_node_names) only if      *)
(* every retrieve reply and every archive reply it has received had result *)
(* success, for a single-sequence segment as for a longer one.             *)
(***************************************************************************)
YieldsOnlyAfterSuccess ==
    yielded # NothingYielded
        => \A n \in 1..Len(received) : received[n].result = "success"

(***************************************************************************)
(* C14: for a segment of K sequences the forwarder queues at most K        *)
(* archive messages, and exactly K when it yields the segment:             *)
(* archive-key-entire when K = 1, otherwise archive-key-start, then        *)
(* archive-key-next K-2 times, then archive-key-final.  The n-th message   *)
(* is archive-key-entire or archive-key-final exactly when the n-th        *)
(* retrieve reply had completed = true, and exactly these two carry        *)
(* file-size, file-adler32 and file-hash of the segment.                   *)
(***************************************************************************)
ArchiveMessagePerSequence ==
    LET K == Len(sequence_rows)
        message(n) == writer_client[n].control
        completing == {"archive-key-entire", "archive-key-final"}
    IN  /\ Len(writer_client) <= K
        /\ yielded # NothingYielded => Len(writer_client) = K
        /\ \A n \in 1..Len(writer_client) :
              /\ message(n).message_type =
                    IF K = 1 THEN "archive-key-entire"
                    ELSE IF n = 1 THEN "archive-key-start"
                    ELSE IF n = K THEN "archive-key-final"
                    ELSE "archive-key-next"
              /\ message(n).message_type \in completing
                    <=> RetrieveReplies[n].completed
              /\ message(n).message_type \in completing
                    <=> {"file_size", "file_adler32", "file_hash"}
                            \subseteq DOMAIN message(n)
              /\ message(n).message_type \in completing
                    => /\ message(n).file_size = segment_row.file_size
                       /\ message(n).file_adler32 = segment_row.file_adler32
                       /\ message(n).file_hash = b64encode(segment_row.file_hash)

ArchiveMessagePerSequence_witness ==
    /\ coroutine = AtYieldFinal
    /\ Len(sequence_rows) = 3
    /\ Len(writer_client) = 3
    /\ writer_client[2].control.message_type = "archive-key-next"

(***************************************************************************)
(* The audit the last step decided: its kind and what the nodes replied.   *)
(***************************************************************************)
Decided == decided # Undecided
DecidedExplicit == decided.client_tag # NoClientTag
DecidedErrors == {n \in NodeNames : decided.replies[n].encoded_md5_digest = "*** error ***"}
DecidedDigests ==
    {decided.replies[n].encoded_md5_digest : n \in NodeNames \ DecidedErrors}
DecidedRow == audit_rows[decided.row_id].state
\* every node replied with success and all replies carry one digest
DecidedAgree == DecidedErrors = {} /\ Cardinality(DecidedDigests) = 1
Pushed(event) == \E i \in 1..Len(events) : events[i] = event

(***************************************************************************)
(* C15: for every collection id, active-requests holds at most one request *)
(* of that collection.                                                     *)
(***************************************************************************)
OneRequestPerCollection ==
    \A k1 \in DOMAIN audit_requests, k2 \in DOMAIN audit_requests :
        k1[1] = k2[1] => k1 = k2

(***************************************************************************)
(* C16: an audit attempt marks its audit row successful, and pushes        *)
(* audit-ok, exactly when every node replied with success and all replies  *)
(* carry the same digest; then retry-list is left as it was and an         *)
(* explicit request is answered with result success.                       *)
(***************************************************************************)
AuditOkWhenAllAgree ==
    /\ [](Decided => /\ DecidedRow = "successful" <=> DecidedAgree
                     /\ Pushed("audit-ok") <=> DecidedAgree
                     /\ (DecidedAgree /\ DecidedExplicit)
                           => /\ Len(audit_replies) = 1
                              /\ audit_replies[1].result = "success")
    /\ [][(Decided /\ DecidedAgree)' => retry_list' = retry_list]_vars

AuditOkWhenAllAgree_witness ==
    /\ Decided
    /\ DecidedExplicit
    /\ DecidedErrors = {}
    /\ DecidedDigests = {"digest-b"}
    /\ DecidedRow = "successful"
    /\ audit_requests # <<>>

\* the retry policy of an audit that was not asked for by a client
RetryPolicy ==
    IF decided'.retry_count < max_retry_count
    THEN /\ Len(retry_list') = Len(retry_list) + 1
         /\ SubSeq(retry_list', 1, Len(retry_list)) = retry_list
         /\ retry_list'[Len(retry_list')].collection_id = decided'.collection_id
         /\ retry_list'[Len(retry_list')].row_id = decided'.row_id
         /\ DecidedRow' = "wait-for-retry"
    ELSE /\ retry_list' = retry_list
         /\ DecidedRow' = "error"

(***************************************************************************)
(* C17: when an audit that no client asked for completes with at least one *)
(* error reply and no two distinct digests: with retry_count below         *)
(* max_retry_count one entry with the attempt's collection id and row id   *)
(* is appended to retry-list and the audit row becomes wait-for-retry;     *)
(* otherwise nothing is appended and the audit row becomes error.          *)
(***************************************************************************)
ErrorRepliesRetried ==
    [][(/\ Decided
        /\ ~DecidedExplicit
        /\ DecidedErrors # {}
        /\ Cardinality(DecidedDigests) <= 1)' => RetryPolicy]_vars

ErrorRepliesRetried_witness ==
    /\ Decided
    /\ ~DecidedExplicit
    /\ Cardinality(DecidedErrors) = 1
    /\ Cardinality(DecidedDigests) = 1
    /\ decided.retry_count = max_retry_count
    /\ DecidedRow = "error"
    /\ retry_list = <<>>

(***************************************************************************)
(* C18: when an audit that no client asked for completes with two or more  *)
(* distinct digests among the successful replies, the same policy applies, *)
(* and the audit row does not become successful.                           *)
(***************************************************************************)
DigestMismatchRetried ==
    [][(/\ Decided
        /\ ~DecidedExplicit
        /\ Cardinality(DecidedDigests) >= 2)'
          => RetryPolicy /\ DecidedRow' # "successful"]_vars

DigestMismatchRetried_witness ==
    /\ Decided
    /\ ~DecidedExplicit
    /\ Cardinality(DecidedDigests) = 2
    /\ decided.retry_count = 0
    /\ DecidedRow = "wait-for-retry"
    /\ Len(retry_list) = 1
    /\ retry_list[1].row_id = decided.row_id

(***************************************************************************)
(* C19: an audit started by an anti-entropy-audit-request is never         *)
(* retried: whatever the replies, its completion appends nothing to        *)
(* retry-list, does not set its audit row to wait-for-retry, and sends one *)
(* anti-entropy-audit-reply, to the client tag of the request, with result *)
(* success, error or audit-error.                                          *)
(***************************************************************************)
ExplicitNeverRetried ==
    /\ [][\A message \in AuditRequests :
            _handle_anti_entropy_audit_request(message)
               => \E k \in DOMAIN audit_requests' \ DOMAIN audit_requests :
                     /\ k[1] = message.collection_id
                     /\ audit_requests'[k].client_tag = message.client_tag
         ]_vars
    /\ [][(Decided /\ DecidedExplicit)'
            => /\ retry_list' = retry_list
               /\ DecidedRow' # "wait-for-retry"
               /\ Len(audit_replies') = 1
               /\ audit_replies'[1].message_type = "anti-entropy-audit-reply"
               /\ audit_replies'[1].client_tag = decided'.client_tag
               /\ audit_replies'[1].collection_id = decided'.collection_id
               /\ audit_replies'[1].result \in {"success", "error", "audit-error"}
         ]_vars

ExplicitNeverRetried_witness ==
    /\ Decided
    /\ DecidedExplicit
    /\ Cardinality(DecidedDigests) = 2
    /\ audit_replies[1].result = "audit-error"
    /\ audit_replies[1].client_tag = "client-2"
    /\ \E k \in DOMAIN audit_requests : audit_requests[k].client_tag = "client-1"

(***************************************************************************)
(* C20: whenever an audit that no client asked for completes without       *)
(* success at retry_count >= max_retry_count, because of error replies or  *)
(* because of a digest mismatch, the audit row becomes error and an        *)
(* audit-errors event is pushed.                                           *)
(***************************************************************************)
AuditErrorsAfterLastRetry ==
    (/\ Decided
     /\ ~DecidedExplicit
     /\ ~DecidedAgree
     /\ decided.retry_count >= max_retry_count)
        => /\ DecidedRow = "error"
           /\ Pushed("audit-errors")

(***************************************************************************)
(* C28: every retrieve-key-start and retrieve-key-next the forwarder has   *)
(* queued for the reader carries, as it goes on the wire, all the fields   *)
(* the reader's handler of that message type reads, so that the handler    *)
(* gets as far as sending a retrieve-key-reply.                            *)
(***************************************************************************)
RetrieveMessagesHandled ==
    \A n \in 1..Len(reader_client) : ~KeyError(_send_message(reader_client[n]))

\* the requests of the coroutine no reply has been received for
Outstanding == Len(reader_client) + Len(writer_client) - Len(received)
\* the first n replies of a counterpart were all successes
AllSuccess(replies, n) ==
    /\ n <= Len(replies)
    /\ \A i \in 1..n : replies[i].result = "success"
\* the coroutine is at its last yield or past it
AfterLastYield == coroutine \in {AtYieldEntire, AtYieldFinal, Returned}

(***************************************************************************)
(* C29: the forwarder has at most one request without a reply, and it      *)
(* alternates between reader and writer: the n-th archive message is       *)
(* queued only after n successful retrieve replies, the (n+1)-th retrieve  *)
(* message only after n successful archive replies, the replies arrive     *)
(* retrieve, archive, retrieve, ...; the segment is yielded only after the *)
(* reply to the last archive message, and from that yield on no message is *)
(* queued for either counterpart.                                          *)
(***************************************************************************)
OneRequestAlternating ==
    /\ [](/\ Outstanding \in {0, 1}
          /\ AllSuccess(RetrieveReplies, Len(writer_client))
          /\ Len(reader_client) >= 1
                => AllSuccess(ArchiveReplies, Len(reader_client) - 1)
          /\ Len(writer_client) <= Len(reader_client)
          /\ \A n \in 1..Len(received) :
                (received[n].message_type = "retrieve-key-reply") <=> (n % 2 = 1)
          /\ yielded # NothingYielded
                => /\ Len(writer_client) >= 1
                   /\ Len(ArchiveReplies) = Len(writer_client)
                   /\ Outstanding = 0)
    /\ [][AfterLastYield
            => /\ reader_client' = reader_client
               /\ writer_client' = writer_client
               /\ AfterLastYield']_vars

OneRequestAlternating_witness ==
    /\ coroutine = Returned
    /\ Len(reader_client) = 2
    /\ Len(writer_client) = 2
    /\ Len(received) = 4

\* a step of _handle_consistency_check_reply: the only steps that create no
\* timestamp, start no consistency check and take no retry entry
ReplyStep ==
    /\ last_timestamp' = last_timestamp
    /\ consistency_checks' = consistency_checks
    /\ Len(retry_list') >= Len(retry_list)
\* the key of the audit a step decided
DecidedKey == <<decided.collection_id, decided.timestamp>>
\* the requests of the next state other than k are those of this state
OthersKept(k) ==
    /\ DOMAIN audit_requests' \ {k} = DOMAIN audit_requests \ {k}
    /\ \A j \in DOMAIN audit_requests \ {k} : audit_requests'[j] = audit_requests[j]

(***************************************************************************)
(* C30: an audit attempt is decided only by the reply that completes the   *)
(* replies of all N node names for an active request, and that step        *)
(* removes the request; a reply step that decides nothing leaves the audit *)
(* rows and the retry list alone, pushes no event and sends no audit       *)
(* reply, and at most records the reply in one active request.  A request  *)
(* that has left active-requests does not come back (new requests get a    *)
(* fresh timestamp), so an attempt is decided once and later replies with  *)
(* its key change nothing.                                                 *)
(***************************************************************************)
DecidedOnceWhenAllReplied ==
    /\ [][Decided'
            => /\ ReplyStep
               /\ DecidedKey' \in DOMAIN audit_requests
               /\ DecidedKey' \notin DOMAIN audit_requests'
               /\ OthersKept(DecidedKey')
               /\ DOMAIN decided'.replies = NodeNames
               /\ Cardinality(DOMAIN audit_requests[DecidedKey'].replies)
                    = Cardinality(NodeNames) - 1]_vars
    /\ [][ReplyStep /\ ~Decided'
            => /\ audit_rows' = audit_rows
               /\ retry_list' = retry_list
               /\ events' = <<>>
               /\ audit_replies' = <<>>
               /\ DOMAIN audit_requests' = DOMAIN audit_requests
               /\ \A k \in DOMAIN audit_requests :
                    \/ audit_requests'[k] = audit_requests[k]
                    \/ /\ OthersKept(k)
                       /\ Cardinality(DOMAIN audit_requests'[k].replies)
                            = Cardinality(DOMAIN audit_requests[k].replies) + 1
                       /\ Cardinality(DOMAIN audit_requests'[k].replies)
                            < Cardinality(NodeNames)]_vars
    /\ [][\A k \in DOMAIN audit_requests' \ DOMAIN audit_requests :
            k[2] > last_timestamp]_vars
    /\ [](\A k \in DOMAIN audit_requests : k[2] <= last_timestamp)

\* an audit is decided while a later audit is still waiting for replies
DecidedOnceWhenAllReplied_witness ==
    /\ Decided
    /\ decided.timestamp = 1
    /\ \E k \in DOMAIN audit_requests :
          k[2] > 1 /\ DOMAIN audit_requests[k].replies # {}

\* the rows the consistency check is said to cover: those of the collection
\* with status active or final that are not held for another node
ActiveOrFinalRows(collection_id) ==
    {row \in segment :
        /\ row.collection_id = collection_id
        /\ row.status \in {segment_status_active, segment_status_final}
        /\ row.handoff_node_id = "None"}

(***************************************************************************)
(* C21: the count and the digest of a consistency-check-reply are those of *)
(* the rows of the collection with status active or final and no handoff   *)
(* node, in (key, timestamp) order; so a finalized row of the collection   *)
(* is counted and hashed.                                                  *)
(***************************************************************************)
CheckCoversActiveAndFinal ==
    check_reply # NoCheckReply
        => /\ check_reply.count
                = Cardinality(ActiveOrFinalRows(check_reply.collection_id))
           /\ check_reply.encoded_md5_digest
                = b64encode(MD5(HashedData(
                    OrderBy(ActiveOrFinalRows(check_reply.collection_id), 1))))

\* the rows of collection 1 the node holds for itself
LocalRows == {row \in segment : row.collection_id = 1 /\ row.handoff_node_id = "None"}
\* the rows of a key with one of the given statuses
RowsOf(key, statuses) == {row \in LocalRows : row.key = key /\ row.status \in statuses}
\* the row with the highest timestamp
Latest(rows) == CHOOSE row \in rows : \A other \in rows : other.timestamp <= row.timestamp
\* the highest-timestamp row of the key among its final and tombstone rows is
\* a tombstone
Destroyed(key) ==
    LET rows == RowsOf(key, {segment_status_final, segment_status_tombstone})
    IN  rows # {} /\ Latest(rows).status = segment_status_tombstone
\* the key has a final row that no later tombstone dominates
Listable(key) ==
    LET rows == RowsOf(key, {segment_status_final, segment_status_tombstone})
    IN  rows # {} /\ Latest(rows).status = segment_status_final
\* the keys of the entries the last call returned
ListedKeys == {listed.key_data[i].key : i \in 1..Len(listed.key_data)}
\* the last call was list_keys without a delimiter (with one)
ListedKeyData == listed.function = "list_keys" /\ listed.delimiter = <<>>
ListedPrefixes == listed.function = "list_keys" /\ listed.delimiter # <<>>

(***************************************************************************)
(* C22: tombstone dominance.  A key whose highest-timestamp row among its  *)
(* final and tombstone rows is a tombstone is not in the key_data of       *)
(* list_keys, whatever older final rows and newer active or cancelled rows *)
(* it has; and every prefix list_keys returns is a prefix of a key that is *)
(* not destroyed.                                                          *)
(***************************************************************************)
TombstoneDominance ==
    /\ ListedKeyData => \A key \in Keys : Destroyed(key) => key \notin ListedKeys
    /\ ListedPrefixes
          => \A prefix \in listed.prefixes :
                \E key \in Keys : Listable(key) /\ StartsWith(key, prefix)

\* list_keys on a key with an older final row, a tombstone and a newer
\* active row, all three read by the call
TombstoneDominance_witness ==
    /\ ListedKeyData
    /\ listed.max_keys = 3
    /\ listed.marker = <<>>
    /\ listed.prefix = <<"a">>
    /\ \E key \in Keys :
          /\ Destroyed(key)
          /\ \E final \in RowsOf(key, {segment_status_final}),
                active \in RowsOf(key, {segment_status_active}) :
                /\ final.timestamp < Latest(RowsOf(key, {segment_status_tombstone})).timestamp
                /\ active.timestamp > Latest(RowsOf(key, {segment_status_tombstone})).timestamp

TruncatedPageHasKey ==
    ListedKeyData /\ listed.truncated => listed.key_data # <<>>

(***************************************************************************)
(* C25: if a tombstone row of a key carries file_tombstone_unified_id = u, *)
(* list_versions does not return the version u of that key.                *)
(***************************************************************************)
DeletedVersionNotListed ==
    (listed.function = "list_versions" /\ listed.delimiter = <<>>)
        => \A tombstone \in LocalRows :
              (/\ tombstone.status = segment_status_tombstone
               /\ tombstone.file_tombstone_unified_id # 0)
                 => \A i \in 1..Len(listed.key_data) :
                       ~(/\ listed.key_data[i].key = tombstone.key
                         /\ listed.key_data[i].version_identifier
                                = tombstone.file_tombstone_unified_id)

(***************************************************************************)
(* C26: with a delimiter, the prefixes list_keys returns are exactly the   *)
(* key[0 .. p] of the keys it would return without the delimiter that      *)
(* contain the delimiter at a position p >= len(prefix), p the first such  *)
(* position, position 0 included.                                          *)
(***************************************************************************)
PrefixesOfEveryKey ==
    ListedPrefixes
        => LET key_list == list_keys(1, listed.prefix, listed.max_keys, <<>>,
                                     listed.marker).key_data
               position(key) == find(key, listed.delimiter, Len(listed.prefix))
           IN  listed.prefixes =
                  {SubSeq(key_list[i].key, 1, position(key_list[i].key) + 1) :
                      i \in {j \in 1..Len(key_list) : position(key_list[j].key) >= 0}}

HandledFor(client_tag) ==
    \/ _handle_retrieve_key_start(RetrieveMessage("retrieve-key-start", client_tag))
    \/ _handle_retrieve_key_next(RetrieveMessage("retrieve-key-next", client_tag))
\* the iterator and the conversation of the state key are what they were
Untouched(state_key) ==
    /\ state_key \in DOMAIN active_requests' <=> state_key \in DOMAIN active_requests
    /\ state_key \in DOMAIN active_requests
          => active_requests'[state_key] = active_requests[state_key]
    /\ conversation'[state_key] = conversation[state_key]

(***************************************************************************)
(* C32: reader conversations are independent per state key.  A handler     *)
(* step for a message of one client creates, advances or removes no        *)
(* iterator of a state key of another client and adds no reply to its      *)
(* conversation; so in any interleaving the success replies of each        *)
(* conversation carry the sequence numbers 1, 2, ... and the data of the   *)
(* sequence rows in that order.                                            *)
(***************************************************************************)
ConversationsIndependent ==
    /\ [][\A client_tag \in ClientTags :
            HandledFor(client_tag)
                => \A state_key \in StateKeys :
                      state_key[1] # client_tag => Untouched(state_key)]_vars
    /\ [](\A state_key \in StateKeys :
            \A n \in 1..Len(conversation[state_key]) :
                /\ conversation[state_key][n].sequence_num = n
                /\ conversation[state_key][n].data = sequence_rows[n].data)

\* two conversations are under way at different sequences
ConversationsIndependent_witness ==
    /\ DOMAIN active_requests = StateKeys
    /\ \E k1, k2 \in StateKeys :
          /\ active_requests[k1].sequence_read_count = 1
          /\ active_requests[k2].sequence_read_count = 2
    /\ reply.result = "success"

(***************************************************************************)
(* C36: every iterator in active-requests has                              *)
(* 1 <= sequence_read_count < sequence_row_count, and its                  *)
(* sequence_read_count is the number of success replies of its             *)
(* conversation so far; an iterator with nothing left to read is not       *)
(* stored.                                                                 *)
(***************************************************************************)
StoredIteratorsHaveMore ==
    \A state_key \in DOMAIN active_requests :
        /\ 1 <= active_requests[state_key].sequence_read_count
        /\ active_requests[state_key].sequence_read_count
                < active_requests[state_key].sequence_row_count
        /\ active_requests[state_key].sequence_read_count
                = Len(conversation[state_key])
        /\ active_requests[state_key].sequence_row_count = Len(sequence_rows)

\* an iterator that has read two of three sequences
StoredIteratorsHaveMore_witness ==
    \E state_key \in DOMAIN active_requests :
        /\ active_requests[state_key].sequence_read_count = 2
        /\ active_requests[state_key].sequence_row_count = 3
        /\ reply.state_key = state_key
        /\ reply.sequence_num = 2

\* the results of a read that failed
FailedRead == {"no-sequence-rows", "exception", "md5-mismatch"}

(***************************************************************************)
(* C37: a failed read leaves no iterator behind.  After a reply with       *)
(* no-sequence-rows, exception or md5-mismatch active-requests has no      *)
(* entry for the state key of the reply; a retrieve-key-next of the same   *)
(* client that follows is answered unknown-request, and a                  *)
(* retrieve-key-start that follows is not rejected as a duplicate and, if  *)
(* it succeeds, delivers sequence 1.                                       *)
(***************************************************************************)
FailedReadLeavesNoIterator ==
    /\ [](reply.result \in FailedRead => reply.state_key \notin DOMAIN active_requests)
    /\ [][\A client_tag \in ClientTags :
            (/\ reply.result \in FailedRead
             /\ reply.state_key[1] = client_tag
             /\ HandledFor(client_tag))
                => /\ reply'.message_type = "retrieve-key-next"
                        => reply'.result = "unknown-request"
                   /\ reply'.message_type = "retrieve-key-start"
                        => /\ reply'.result # "invalid-duplicate"
                           /\ reply'.result = "success" => reply'.sequence_num = 1]_vars

\* retrieve-key-next failed on the second sequence after the first was
\* delivered
FailedReadLeavesNoIterator_witness ==
    /\ reply.message_type = "retrieve-key-next"
    /\ reply.result \in {"exception", "md5-mismatch"}
    /\ Len(conversation[reply.state_key]) = 1
    /\ \E state_key \in DOMAIN active_requests : state_key # reply.state_key

\* what the replies of the nodes, the kind of the audit and its retry count
\* make of the audit: the state of its row, whether it is retried, and the
\* result of the reply to the client that asked for it
ExpectedRow ==
    IF DecidedAgree THEN "successful"
    ELSE IF DecidedExplicit \/ decided.retry_count >= max_retry_count THEN "error"
    ELSE "wait-for-retry"
ExpectedRetry ==
    ~DecidedAgree /\ ~DecidedExplicit /\ decided.retry_count < max_retry_count
ExpectedResult ==
    IF DecidedAgree THEN "success"
    ELSE IF DecidedErrors # {} /\ Cardinality(DecidedDigests) = 1 THEN "error"
    ELSE "audit-error"

(***************************************************************************)
(* C31: the outcome of an audit attempt is a function of the reply each    *)
(* node sent, of whether a client asked for the audit and of its retry     *)
(* count: the state of the audit row, whether one retry entry is appended, *)
(* and the result of the reply to the client are the same whichever        *)
(* node's reply arrives last.                                              *)
(***************************************************************************)
OutcomeIgnoresArrivalOrder ==
    [][Decided'
        => /\ DecidedRow' = ExpectedRow'
           /\ Len(retry_list') = Len(retry_list) + (IF ExpectedRetry' THEN 1 ELSE 0)
           /\ Len(audit_replies') = (IF DecidedExplicit' THEN 1 ELSE 0)
           /\ \A i \in 1..Len(audit_replies') :
                audit_replies'[i].result = ExpectedResult']_vars

\* an audit a client asked for is decided on an error reply of node-1 and a
\* success reply of node-2, in either order of arrival
OutcomeIgnoresArrivalOrder_witness ==
    /\ Decided
    /\ DecidedExplicit
    /\ DecidedErrors = {"node-1"}
    /\ audit_replies[1].result = "error"

\* the message is a reply the handler ignores: its request is not active, or
\* its node has replied to the request before
Ignored(message) ==
    \/ <<message.collection_id, message.timestamp>> \notin DOMAIN audit_requests
    \/ message.node_name
          \in DOMAIN audit_requests[<<message.collection_id, message.timestamp>>].replies

(***************************************************************************)
(* C38: a consistency-check-reply for a (collection_id, timestamp) that is *)
(* not in active-requests, or from a node whose reply to that request is   *)
(* already recorded, changes nothing: active-requests with every recorded  *)
(* reply, the audit rows and the retry list stay as they are, no event is  *)
(* pushed, no audit reply is sent and no audit is decided.  That is: a     *)
(* step changes none of these, or it is not a step of the reply handler,   *)
(* or it is the handler's step for no ignored reply.                       *)
(***************************************************************************)
IgnoredReplyChangesNothing ==
    [][\/ /\ audit_requests' = audit_requests
          /\ audit_rows' = audit_rows
          /\ retry_list' = retry_list
          /\ events' = <<>>
          /\ audit_replies' = <<>>
          /\ ~Decided'
       \/ ~ReplyStep
       \/ \A message \in ConsistencyCheckReplies :
             ~(Ignored(message) /\ _handle_consistency_check_reply(message))]_vars

\* no step has just decided anything, one request holds the reply of one
\* node, and the request of an earlier audit is gone: replies of both
\* ignored kinds arrive here and lead back here
IgnoredReplyChangesNothing_witness ==
    /\ ~Decided
    /\ events = <<>>
    /\ \E k \in DOMAIN audit_requests : DOMAIN audit_requests[k].replies = {"node-1"}
    /\ \E request \in consistency_checks :
          <<request.collection_id, request.timestamp>> \notin DOMAIN audit_requests
    /\ \E i \in 1..Len(audit_rows) : audit_rows[i].state = "successful"

Expected ==
    SubSeq(slicer.content, 1,
           IF slicer.total_size = NoTotalSize THEN Len(slicer.content)
           ELSE slicer.total_size)

(***************************************************************************)
(* C33: DataSlicer loses and duplicates no bytes.  For every content,      *)
(* slice_size >= 1, total_size (None or at most the length of the content) *)
(* and every pattern of short reads of file_obj.read, the concatenation of *)
(* the slices next returns until it raises StopIteration is the first      *)
(* total_size bytes of the content (all of it when total_size is None).    *)
(***************************************************************************)
SlicesAreContent == slicer.stopped => slicer.slices = Expected

(***************************************************************************)
(* C40: the forwarder re-archives each sequence unchanged and in order.    *)
(* The n-th archive message it queues carries the data and the             *)
(* segment-size, zfec-padding-size, segment-adler32 and segment-md5-digest *)
(* of the n-th retrieve reply; when the segment has two or more sequences  *)
(* its sequence-num is n, which is the sequence-num of that reply, with    *)
(* archive-key-start for n = 1 and archive-key-final for the last          *)
(* sequence only, so that the writer sees 1..K without gaps.               *)
(***************************************************************************)
ArchivesSequencesInOrder ==
    /\ Len(writer_client) <= Len(RetrieveReplies)
    /\ \A n \in 1..Len(writer_client) :
          LET message == writer_client[n].control
              retrieve_reply == RetrieveReplies[n]
          IN  /\ retrieve_reply.result = "success"
              /\ writer_client[n].data = retrieve_reply.data
              /\ message.segment_size = retrieve_reply.segment_size
              /\ message.zfec_padding_size = retrieve_reply.zfec_padding_size
              /\ message.segment_adler32 = retrieve_reply.segment_adler32
              /\ message.segment_md5_digest = retrieve_reply.segment_md5_digest
              /\ retrieve_reply.data = sequence_rows[n].data
              /\ GeneratorRowCount >= 2
                    => /\ "sequence_num" \in DOMAIN message
                       /\ message.sequence_num = n
                       /\ message.sequence_num = retrieve_reply.sequence_num
                       /\ message.message_type = "archive-key-start" <=> n = 1
                       /\ message.message_type = "archive-key-final"
                             <=> n = GeneratorRowCount

\* the last of MaxSequences sequences has been archived and acknowledged
ArchivesSequencesInOrder_witness ==
    /\ coroutine = AtYieldFinal
    /\ Len(writer_client) = MaxSequences
    /\ writer_client[MaxSequences].control.message_type = "archive-key-final"
    /\ writer_client[MaxSequences].control.sequence_num = MaxSequences

\* the lines at which run calls _disconnect
DisconnectDue ==
    \/ status = _status_connected /\ pending_message = None /\ IdleTooLong
    \/ status = _status_connected /\ pending_message # None /\ AckTimedOut
    \/ status = _status_handshaking /\ AckTimedOut

(***************************************************************************)
(* C34: in every reachable state of the client (run, queue_message_for_    *)
(* send, receipt of acks, close, socket write errors) the dealer socket    *)
(* exists if and only if the status is handshaking or connected; so the    *)
(* socket is None where _handle_status_disconnected asserts it before      *)
(* connecting, and is not None wherever run calls _disconnect.             *)
(***************************************************************************)
SocketIffActive ==
    /\ dealer_socket # NoSocket
          <=> status \in {_status_handshaking, _status_connected}
    /\ (status = _status_disconnected /\ HandshakeRetryDue) => dealer_socket = NoSocket
    /\ DisconnectDue => dealer_socket # NoSocket

\* close was called while the client waited for an ack, and the retry
\* interval has passed since: the next run step connects again
SocketIffActive_witness ==
    /\ status = _status_disconnected
    /\ dealer_socket = NoSocket
    /\ pending_message # None
    /\ HandshakeRetryDue
    /\ ~first_use

(***************************************************************************)
(* C35: no message is stranded.  Whenever the status is connected and no   *)
(* message is pending the send queue is empty; whenever the status is      *)
(* handshaking the pending message is the handshake, as                    *)
(* _handle_status_handshaking asserts; and a pending handshake on an open  *)
(* socket means the status is handshaking, as the callback asserts when    *)
(* the ack of a handshake arrives.                                         *)
(***************************************************************************)
NoMessageStranded ==
    /\ (status = _status_connected /\ pending_message = None) => send_queue = <<>>
    /\ status = _status_handshaking
          => pending_message # None /\ IsHandshake(pending_message)
    /\ (dealer_socket # NoSocket /\ pending_message # None
            /\ IsHandshake(pending_message))
          => status = _status_handshaking

\* every message was queued before the client was connected, and the last
\* of them has been acked: the callback emptied the queue one ack at a time
NoMessageStranded_witness ==
    /\ status = _status_connected
    /\ pending_message = None
    /\ send_queue = <<>>
    /\ acked = MessageIds
    /\ ack_in = MaxMessages

====
